---------------------------- MODULE Spec2Model ----------------------------
(***************************************************************************)
(* A model of the Market-Report-Processor: the ordered provider chain of   *)
(* LLMSummarizer (src/src/llm_summarizer.py), the WeChat specializer       *)
(* (src/src/wechat_summarizer.py), the watermark redactor                  *)
(* (src/src/pdf_processor.py), the mail sender (src/src/email_sender.py)   *)
(* and the handlers of the desktop application (src/main.py).              *)
(*                                                                         *)
(* Text is a sequence of characters; a character is a one-token string.    *)
(* Chinese characters are written by their pinyin ("mai" "ru" is the       *)
(* rating keyword buy, "zeng" "chi" overweight, "chi" "you" hold), the     *)
(* newline is "nl" and the ideographic full stop is "ju".                  *)
(***************************************************************************)
EXTENDS Integers, Sequences, FiniteSets, TLC

VARIABLES
    deepseek_available,  \* LLMSummarizer.deepseek_available
    gemini_available,    \* LLMSummarizer.gemini_available
    qwen_available,      \* LLMSummarizer.qwen_available
    api,                 \* what each remote service does when it is called
    pdf_text,            \* the argument of summarize_pdf_content
    pc,                  \* the position inside summarize_pdf_content
    invoked,             \* the providers invoked by the running call, in order
    requests,            \* provider -> the prompt sent to it by the running call
    result,              \* the tuple the call returned
    ncalls,              \* the number of calls entered so far
    log,                 \* one entry per returned call: what it invoked and returned
    filename,            \* the filename argument of generate_wechat_summary
    text_is_str,         \* FALSE: generate_wechat_summary is passed None as pdf_text
    w_pc,                \* the position inside generate_wechat_summary
    w_prompt,            \* the prompt built by _create_wechat_prompt
    w_path,              \* which return statement produced w_summary
    w_summary,           \* the string generate_wechat_summary returned
    summaries,           \* the argument of combine_summaries
    c_pc,                \* "ready" before combine_summaries ran, "done" after
    ratings,             \* the votes combine_summaries collected
    consensus,           \* most_common_rating of combine_summaries
    combined,            \* the string combine_summaries returned
    src_path,            \* the pdf_path argument of remove_watermarks
    watermark_list,      \* the watermark_list argument of remove_watermarks
    disk,                \* path -> the document stored in the file at that path
    r_pc,                \* the position inside remove_watermarks
    d_pages,             \* the pages of the document opened by the direct path
    page_num,            \* the page the direct path works on next (from 1)
    modified,            \* the flag `modified` of the direct path
    direct_raised,       \* the direct path caught an error and returned None
    via_images,          \* _remove_watermarks_via_images has been invoked
    written,             \* the paths remove_watermarks has written to
    clean_path,          \* the path remove_watermarks returned
    images,              \* the pictures convert_from_path gave the image path
    processed_images,    \* the list processed_images of the image path
    caught,              \* the pictures whose processing caught an error
    config_present,      \* config.py exists and has the keys the constructors import
    ui_queue,            \* the callbacks posted with root.after(0, ...), oldest first
    dialogs,             \* the message boxes shown so far
    workers,             \* the number of worker threads started so far
    clicks,              \* the number of button presses handled so far
    folder_path,         \* the folder field of the batch tab
    folder,              \* the entries os.listdir gives for the folder, in its order
    batch_button,        \* the state of the batch button
    batch_progress,      \* the batch progress bar is running
    results_text,        \* what has been inserted in the results box
    b_pc,                \* the position inside _analyze_batch_thread
    pdf_files,           \* the list pdf_files of the batch worker
    file_index,          \* the file the batch worker takes next (from 1)
    all_summaries,       \* the list all_summaries of the batch worker
    e_args,              \* the arguments of send_pdf_summary_email
    e_pc,                \* the position inside send_pdf_summary_email
    e_msg,               \* the message send_pdf_summary_email has built
    e_result,            \* what send_pdf_summary_email returned
    connections,         \* the number of SMTP connections opened so far
    outbox,              \* the messages handed to the SMTP server
    pdf_path,            \* the input field of the single-document tab
    output_path,         \* the output field of the single-document tab
    email_recipient,     \* the recipient field
    summarize_pdf,       \* the summary checkbox
    validated,           \* the field values read when the worker was started
    process_button,      \* the state of the process button
    progress,            \* the progress bar of the single-document tab is running
    status_label,        \* the text of the status label
    p_pc,                \* the position inside _process_pdf_thread
    summary_text,        \* summary_text of _process_pdf_thread
    email_sent           \* email_sent of _process_pdf_thread

chainVars == <<deepseek_available, gemini_available, qwen_available, api,
               pdf_text, pc, invoked, requests, result, ncalls, log>>

wechatVars == <<filename, text_is_str, w_pc, w_prompt, w_path, w_summary>>

combineVars == <<summaries, c_pc, ratings, consensus, combined>>

imageVars == <<images, processed_images, caught>>

redactVars == <<src_path, watermark_list, disk, r_pc, d_pages, page_num,
                modified, direct_raised, via_images, written, clean_path,
                imageVars>>

desktopVars == <<config_present, ui_queue, dialogs, workers, clicks>>

batchVars == <<folder_path, folder, batch_button, batch_progress,
               results_text, b_pc, pdf_files, file_index, all_summaries>>

emailVars == <<e_args, e_pc, e_msg, e_result, connections, outbox>>

singleVars == <<pdf_path, output_path, email_recipient, summarize_pdf,
                validated,
                process_button, progress, status_label, p_pc, summary_text,
                email_sent>>

appVars == <<redactVars, desktopVars, batchVars, emailVars, singleVars>>

vars == <<chainVars, wechatVars, combineVars, appVars>>

\* The state a run of summarize_pdf_content leaves alone.
OutsideChain == <<wechatVars, combineVars, appVars>>

\* generate_wechat_summary and combine_summaries have not been called.
WeChatIdle ==
    /\ filename = <<>>
    /\ text_is_str = TRUE
    /\ w_pc = "idle"
    /\ w_prompt = <<>>
    /\ w_path = ""
    /\ w_summary = <<>>

CombineIdle ==
    /\ summaries = <<>>
    /\ c_pc = "idle"
    /\ ratings = <<>>
    /\ consensus = <<>>
    /\ combined = <<>>

NoPath == [dir |-> "", name |-> <<>>]

NoMail ==
    [recipient_email |-> <<>>, pdf_path |-> NoPath, summary_text |-> <<>>,
     original_filename |-> <<>>]

NoMessage == [to |-> <<>>, subject |-> <<>>, body |-> <<>>, attachments |-> <<>>]

\* remove_watermarks has not been called and no file exists.
RedactIdle ==
    /\ src_path = NoPath
    /\ watermark_list = <<>>
    /\ disk = <<>>
    /\ r_pc = "idle"
    /\ d_pages = <<>>
    /\ page_num = 0
    /\ modified = FALSE
    /\ direct_raised = FALSE
    /\ via_images = FALSE
    /\ written = {}
    /\ clean_path = NoPath
    /\ images = <<>>
    /\ processed_images = <<>>
    /\ caught = {}

\* The window after construction: nothing was pressed.
DesktopIdle ==
    /\ config_present = TRUE
    /\ ui_queue = <<>>
    /\ dialogs = <<>>
    /\ workers = 0
    /\ clicks = 0

\* No batch analysis was started.
BatchIdle ==
    /\ folder_path = ""
    /\ folder = <<>>
    /\ batch_button = "normal"
    /\ batch_progress = FALSE
    /\ results_text = <<>>
    /\ b_pc = "idle"
    /\ pdf_files = <<>>
    /\ file_index = 0
    /\ all_summaries = <<>>

\* send_pdf_summary_email has not been called.
EmailIdle ==
    /\ e_args = NoMail
    /\ e_pc = "idle"
    /\ e_msg = NoMessage
    /\ e_result = FALSE
    /\ connections = 0
    /\ outbox = <<>>

\* What process_pdf has read when no worker was started yet.
NoFields == [pdf_path |-> NoPath, output_path |-> NoPath, email |-> <<>>]

\* No single-document processing was started.
SingleIdle ==
    /\ pdf_path = NoPath
    /\ output_path = NoPath
    /\ email_recipient = <<>>
    /\ summarize_pdf = TRUE
    /\ validated = NoFields
    /\ process_button = "normal"
    /\ progress = FALSE
    /\ status_label = ""
    /\ p_pc = "idle"
    /\ summary_text = <<>>
    /\ email_sent = FALSE

\* The redactor, the mail sender and the desktop handlers are not in use.
AppIdle == RedactIdle /\ DesktopIdle /\ BatchIdle /\ EmailIdle /\ SingleIdle

-----------------------------------------------------------------------------
(* Bounds of the model.                                                    *)

\* summarize_pdf_content is called at most this many times on one object.
MaxCalls == 2

\* Raw texts are taken with lengths within this distance of each input limit.
MaxDelta == 1

\* combine_summaries is given at most this many summaries.
MaxSummaries == 3

\* A document has at most this many pages.
MaxPages == 2

\* remove_watermarks is given at most this many patterns.
MaxPatterns == 2

\* A folder has at most this many entries.
MaxFiles == 3

\* At most this many button presses are handled.
MaxClicks == 2

-----------------------------------------------------------------------------
(* Characters and strings.                                                 *)

Whitespace == {" ", "nl", "tab"}

\* str.strip(): the text without its leading and trailing whitespace.
Strip(s) ==
    IF \A i \in 1..Len(s) : s[i] \in Whitespace THEN <<>>
    ELSE LET lo == CHOOSE i \in 1..Len(s) :
                      /\ s[i] \notin Whitespace
                      /\ \A j \in 1..(i - 1) : s[j] \in Whitespace
             hi == CHOOSE i \in 1..Len(s) :
                      /\ s[i] \notin Whitespace
                      /\ \A j \in (i + 1)..Len(s) : s[j] \in Whitespace
         IN  SubSeq(s, lo, hi)

Providers == <<"DeepSeek", "Google Gemini", "Alibaba Qwen">>

ProviderSet == {Providers[i] : i \in 1..Len(Providers)}

Rank(p) == CHOOSE i \in 1..Len(Providers) : Providers[i] = p

\* "\n\n[内容已截断...]"
TruncationMarker ==
    <<"nl", "nl", "[", "nei", "rong", "yi", "jie", "duan", ".", ".", ".", "]">>

\* The fixed text of the prompt before and after the embedded document.
PromptHead == <<"<prompt: wen dang nei rong>", "nl">>

PromptTail == <<"nl", "<prompt: qing an yi xia ge shi>">>

DeepSeekMaxLength == 20000

GeminiMaxLength == 20000

QwenMaxLength == 15000

-----------------------------------------------------------------------------
(* The three provider invocations.  A remote service either fails (the     *)
(* client raises), answers without content (content is None, so .strip()   *)
(* raises inside the try block) or answers with a content string.          *)

APIError == [kind |-> "error", content |-> <<>>]

NoContent == [kind |-> "none", content |-> <<>>]

Answer(s) == [kind |-> "content", content |-> s]

\* The document text embedded in the DeepSeek prompt.
DeepSeekDocument_off_by_one(text) ==
    IF Len(text) >= DeepSeekMaxLength
    THEN SubSeq(text, 1, DeepSeekMaxLength - 1) \o TruncationMarker
    ELSE text

DeepSeekDocument(text) ==
    IF Len(text) > DeepSeekMaxLength
    THEN SubSeq(text, 1, DeepSeekMaxLength) \o TruncationMarker
    ELSE text

GeminiDocument(text) ==
    IF Len(text) > GeminiMaxLength
    THEN SubSeq(text, 1, GeminiMaxLength) \o TruncationMarker
    ELSE text

QwenDocument(text) ==
    IF Len(text) > QwenMaxLength
    THEN SubSeq(text, 1, QwenMaxLength) \o TruncationMarker
    ELSE text

\* What an invocation hands back to summarize_pdf_content: the prompt it
\* sent, whether it raised, and the text it returned.
Invocation(prompt, response) ==
    [prompt |-> prompt,
     raised |-> response.kind # "content",
     text   |-> IF response.kind = "content" THEN Strip(response.content)
                ELSE <<>>]

summarize_with_deepseek(text) ==
    Invocation(PromptHead \o DeepSeekDocument(text) \o PromptTail,
               api["DeepSeek"])

summarize_with_gemini(text) ==
    Invocation(PromptHead \o GeminiDocument(text) \o PromptTail,
               api["Google Gemini"])

summarize_with_qwen(text) ==
    Invocation(PromptHead \o QwenDocument(text) \o PromptTail,
               api["Alibaba Qwen"])

-----------------------------------------------------------------------------
(* LLMSummarizer.summarize_pdf_content, one action per provider block.     *)

NoRequest == <<>>

NoResult == [text |-> <<>>, name |-> "<none>"]

EmptyResult == [text |-> <<>>, name |-> ""]

\* The call returns `r`: the tuple reaches the caller.
Return(r) ==
    /\ pc' = "returned"
    /\ result' = r
    /\ log' = Append(log, [invoked |-> invoked', name |-> r.name])

\* The caller calls summarize_pdf_content(pdf_text).
summarize_pdf_content ==
    /\ pc \in {"idle", "returned"}
    /\ ncalls < MaxCalls
    /\ ncalls' = ncalls + 1
    /\ pc' = "deepseek"
    /\ invoked' = <<>>
    /\ requests' = [p \in ProviderSet |-> NoRequest]
    /\ result' = NoResult
    /\ UNCHANGED <<deepseek_available, gemini_available, qwen_available,
                   api, pdf_text, log>>
    /\ UNCHANGED OutsideChain

TryDeepSeek ==
    /\ pc = "deepseek"
    /\ IF deepseek_available
       THEN LET r == summarize_with_deepseek(pdf_text)
            IN  /\ invoked' = Append(invoked, "DeepSeek")
                /\ requests' = [requests EXCEPT !["DeepSeek"] = r.prompt]
                /\ IF r.raised
                   THEN pc' = "gemini" /\ UNCHANGED <<result, log>>
                   ELSE Return([text |-> r.text, name |-> "DeepSeek"])
       ELSE pc' = "gemini" /\ UNCHANGED <<invoked, requests, result, log>>
    /\ UNCHANGED <<deepseek_available, gemini_available, qwen_available,
                   api, pdf_text, ncalls>>
    /\ UNCHANGED OutsideChain

\* A mutation of TryGemini: the availability flag is not consulted.
TryGemini_unchecked ==
    /\ pc = "gemini"
    /\ LET r == summarize_with_gemini(pdf_text)
       IN  /\ invoked' = Append(invoked, "Google Gemini")
           /\ requests' = [requests EXCEPT !["Google Gemini"] = r.prompt]
           /\ IF r.raised
              THEN pc' = "qwen" /\ UNCHANGED <<result, log>>
              ELSE Return([text |-> r.text, name |-> "Google Gemini"])
    /\ UNCHANGED <<deepseek_available, gemini_available, qwen_available,
                   api, pdf_text, ncalls>>
    /\ UNCHANGED OutsideChain

\* A mutation of TryGemini: the result is kept and the chain goes on, so a
\* later provider's answer replaces it.
TryGemini_falls_through ==
    /\ pc = "gemini"
    /\ IF gemini_available
       THEN LET r == summarize_with_gemini(pdf_text)
            IN  /\ invoked' = Append(invoked, "Google Gemini")
                /\ requests' = [requests EXCEPT !["Google Gemini"] = r.prompt]
                /\ pc' = "qwen"
                /\ UNCHANGED log
                /\ IF r.raised
                   THEN UNCHANGED result
                   ELSE result' = [text |-> r.text, name |-> "Google Gemini"]
       ELSE pc' = "qwen" /\ UNCHANGED <<invoked, requests, result, log>>
    /\ UNCHANGED <<deepseek_available, gemini_available, qwen_available,
                   api, pdf_text, ncalls>>
    /\ UNCHANGED OutsideChain

TryGemini ==
    /\ pc = "gemini"
    /\ IF gemini_available
       THEN LET r == summarize_with_gemini(pdf_text)
            IN  /\ invoked' = Append(invoked, "Google Gemini")
                /\ requests' = [requests EXCEPT !["Google Gemini"] = r.prompt]
                /\ IF r.raised
                   THEN pc' = "qwen" /\ UNCHANGED <<result, log>>
                   ELSE Return([text |-> r.text, name |-> "Google Gemini"])
       ELSE pc' = "qwen" /\ UNCHANGED <<invoked, requests, result, log>>
    /\ UNCHANGED <<deepseek_available, gemini_available, qwen_available,
                   api, pdf_text, ncalls>>
    /\ UNCHANGED OutsideChain

\* A mutation of TryQwen: the last provider's exception is not caught.
TryQwen_propagates ==
    /\ pc = "qwen"
    /\ IF qwen_available
       THEN LET r == summarize_with_qwen(pdf_text)
            IN  /\ invoked' = Append(invoked, "Alibaba Qwen")
                /\ requests' = [requests EXCEPT !["Alibaba Qwen"] = r.prompt]
                /\ IF r.raised
                   THEN pc' = "raised" /\ UNCHANGED <<result, log>>
                   ELSE Return([text |-> r.text, name |-> "Alibaba Qwen"])
       ELSE UNCHANGED <<invoked, requests>> /\ Return(EmptyResult)
    /\ UNCHANGED <<deepseek_available, gemini_available, qwen_available,
                   api, pdf_text, ncalls>>
    /\ UNCHANGED OutsideChain

TryQwen ==
    /\ pc = "qwen"
    /\ IF qwen_available
       THEN LET r == summarize_with_qwen(pdf_text)
            IN  /\ invoked' = Append(invoked, "Alibaba Qwen")
                /\ requests' = [requests EXCEPT !["Alibaba Qwen"] = r.prompt]
                /\ IF r.raised
                   THEN Return(EmptyResult)
                   ELSE Return([text |-> r.text, name |-> "Alibaba Qwen"])
       ELSE UNCHANGED <<invoked, requests>> /\ Return(EmptyResult)
    /\ UNCHANGED <<deepseek_available, gemini_available, qwen_available,
                   api, pdf_text, ncalls>>
    /\ UNCHANGED OutsideChain

NextChain ==
    \/ summarize_pdf_content
    \/ TryDeepSeek
    \/ TryGemini
    \/ TryQwen

\* What a provider's service may do: fail, answer without content, answer
\* whitespace only, or answer a text of its own between whitespace.
Responses(p) ==
    {APIError, NoContent, Answer(<<"nl">>),
     Answer(<<" ", "text of", p, "nl">>)}

InitCall ==
    /\ pc = "idle"
    /\ invoked = <<>>
    /\ requests = [p \in ProviderSet |-> NoRequest]
    /\ result = NoResult
    /\ ncalls = 0
    /\ log = <<>>

InitChain ==
    /\ deepseek_available \in BOOLEAN
    /\ gemini_available \in BOOLEAN
    /\ qwen_available \in BOOLEAN
    /\ api \in {f \in [ProviderSet -> UNION {Responses(p) : p \in ProviderSet}] :
                  \A p \in ProviderSet : f[p] \in Responses(p)}
    /\ pdf_text = <<"r", "e", "p", "o", "r", "t">>
    /\ InitCall
    /\ WeChatIdle
    /\ CombineIdle
    /\ AppIdle

SpecChain == InitChain /\ [][NextChain]_vars


\* Raw texts around the input limits: the character at a position depends on
\* the position, so a shifted or shortened copy differs from the original.
TextOfLength(n, k) ==
    [i \in 1..n |-> <<"a", "b", "c", "d", "e">>[((i * k) % 5) + 1]]

LongTextLengths ==
    {6, 25000}
    \cup {QwenMaxLength + d : d \in (0 - MaxDelta)..MaxDelta}
    \cup {DeepSeekMaxLength + d : d \in (0 - MaxDelta)..MaxDelta}

\* Every provider fails, so that each available one is sent a request, or
\* every provider answers.
InitTruncate ==
    /\ deepseek_available \in BOOLEAN
    /\ gemini_available \in BOOLEAN
    /\ qwen_available \in BOOLEAN
    /\ api \in {[p \in ProviderSet |-> APIError],
                [p \in ProviderSet |-> Answer(<<"text of", p>>)]}
    /\ pdf_text \in {TextOfLength(n, k) : n \in LongTextLengths, k \in 1..2}
    /\ InitCall
    /\ WeChatIdle
    /\ CombineIdle
    /\ AppIdle

SpecTruncate == InitTruncate /\ [][NextChain]_vars

-----------------------------------------------------------------------------
(* Claims about the provider chain.                                        *)

Avail(p) ==
    CASE p = "DeepSeek" -> deepseek_available
      [] p = "Google Gemini" -> gemini_available
      [] p = "Alibaba Qwen" -> qwen_available

Raises(p) == api[p].kind # "content"

\* The providers that are available and whose invocation does not raise.
Usable == {p \in ProviderSet : Avail(p) /\ ~Raises(p)}

FirstUsable == CHOOSE p \in Usable : \A q \in Usable : Rank(p) <= Rank(q)

\* C1: a returned call returns the text and the name of the first provider,
\* in the order DeepSeek, Google Gemini, Alibaba Qwen, that is available and
\* does not raise (the empty result when there is none), and every call
\* returns one result: the log holds one entry per returned call.
C1_FirstSuccessWins ==
    /\ pc = "returned" =>
          IF Usable = {}
          THEN result = EmptyResult
          ELSE result = [text |-> Strip(api[FirstUsable].content),
                         name |-> FirstUsable]
    /\ Len(log) = IF pc \in {"idle", "returned"} THEN ncalls ELSE ncalls - 1

\* DeepSeek raises and Gemini succeeds, and Qwen would have succeeded too.
C1_Witness ==
    /\ pc = "returned"
    /\ deepseek_available /\ Raises("DeepSeek")
    /\ gemini_available /\ ~Raises("Google Gemini")
    /\ qwen_available /\ ~Raises("Alibaba Qwen")
    /\ result = [text |-> <<"text of", "Google Gemini">>,
                 name |-> "Google Gemini"]

InvokedBefore(i) == {invoked[j] : j \in 1..(i - 1)}

\* C2: in a call every provider is invoked at most once, an unavailable
\* provider never, none after one has succeeded, and a provider only after
\* every earlier-ranked available provider was invoked and raised; and the
\* calls made with the same flags and the same pattern of provider outcomes
\* invoke the same sequence of providers and end on the same provider.
C2_InvocationOrder ==
    /\ \A i, j \in 1..Len(invoked) : invoked[i] = invoked[j] => i = j
    /\ \A i \in 1..Len(invoked) :
          /\ Avail(invoked[i])
          /\ i < Len(invoked) => Raises(invoked[i])
          /\ \A q \in ProviderSet :
                Avail(q) /\ Rank(q) < Rank(invoked[i]) =>
                   q \in InvokedBefore(i) /\ Raises(q)
    /\ pc = "returned" /\ Len(invoked) > 0 /\ ~Raises(invoked[Len(invoked)]) =>
          result.name = invoked[Len(invoked)]
    /\ \A c, d \in 1..Len(log) : log[c] = log[d]

\* Two calls have returned; each invoked DeepSeek, which raised, and then
\* Qwen, Gemini being unavailable.
C2_Witness ==
    /\ Len(log) = 2
    /\ pc = "returned"
    /\ ~gemini_available
    /\ log[1].invoked = <<"DeepSeek", "Alibaba Qwen">>
    /\ log[2].invoked = <<"DeepSeek", "Alibaba Qwen">>
    /\ log[2].name = "Alibaba Qwen"

\* C3: the call never raises, and when every provider is unavailable or
\* raises it returns the empty result.
C3_NeverRaises ==
    /\ pc # "raised"
    /\ pc = "returned" /\ (\A p \in ProviderSet : ~Avail(p) \/ Raises(p)) =>
          result = EmptyResult

\* Gemini and Qwen are available and both raise; the call returned empty.
C3_Witness ==
    /\ pc = "returned"
    /\ ~deepseek_available
    /\ gemini_available /\ Raises("Google Gemini")
    /\ qwen_available /\ Raises("Alibaba Qwen")
    /\ invoked = <<"Google Gemini", "Alibaba Qwen">>
    /\ result = EmptyResult

\* An invocation that raises, or that returns empty text.
FailsOrEmpty(p) == Raises(p) \/ Strip(api[p].content) = <<>>

\* C4: the returned text is empty only when every provider was unavailable
\* or failed, an invocation that returns empty text counting as a failure,
\* and the text is empty exactly when the provider name is empty.
C4_EmptyOnlyOnTotalFailure ==
    pc = "returned" =>
       /\ (result.text = <<>>) <=> (result.name = "")
       /\ result.text = <<>> =>
             \A p \in ProviderSet : ~Avail(p) \/ FailsOrEmpty(p)

\* What the code does instead: the text is empty exactly when no available
\* provider returned, or the first one that returned gave empty text.
C4_EmptyTextInCode ==
    pc = "returned" =>
       ((result.text = <<>>) <=>
           (Usable = {} \/ Strip(api[FirstUsable].content) = <<>>))

\* C5: the document text embedded in the request to a provider with input
\* limit L is the raw text when that has at most L characters, and otherwise
\* its first L characters followed by the truncation marker.
C5_Limit(p) ==
    CASE p = "DeepSeek" -> 20000
      [] p = "Google Gemini" -> 20000
      [] p = "Alibaba Qwen" -> 15000

EmbeddedDocument(p) ==
    SubSeq(requests[p], Len(PromptHead) + 1,
           Len(requests[p]) - Len(PromptTail))

C5_TruncatedToLimit ==
    \A p \in ProviderSet :
       requests[p] # NoRequest =>
          LET doc == EmbeddedDocument(p)
              L == C5_Limit(p)
          IN  IF Len(pdf_text) > L
              THEN /\ Len(doc) = L + Len(TruncationMarker)
                   /\ SubSeq(doc, 1, L) = SubSeq(pdf_text, 1, L)
                   /\ SubSeq(doc, L + 1, Len(doc)) = TruncationMarker
              ELSE doc = pdf_text

\* Scenario B: a raw text of 25,000 characters, and the request DeepSeek was
\* sent holds its first 20,000 characters and the marker; and a raw text of
\* exactly 20,000 characters is embedded whole.
C5_Witness ==
    /\ requests["DeepSeek"] # NoRequest
    /\ Len(pdf_text) = 25000
    /\ Len(EmbeddedDocument("DeepSeek")) = 20012

-----------------------------------------------------------------------------
(* String operations of wechat_summarizer.py.                              *)

Min(S) == CHOOSE x \in S : \A y \in S : x <= y

\* The elements of a finite set of integers in increasing order.
Sorted(S) ==
    [k \in 1..Cardinality(S) |->
        CHOOSE x \in S : Cardinality({y \in S : y <= x}) = k]

\* `kw in s`
Contains(s, kw) ==
    \E i \in 1..(Len(s) - Len(kw) + 1) : SubSeq(s, i, i + Len(kw) - 1) = kw

\* s.split(c) for a one-character separator: the pieces between its
\* occurrences, the empty ones included.
Split(s, c) ==
    LET P == Sorted({i \in 1..Len(s) : s[i] = c})
        m == Len(P)
    IN  [k \in 1..(m + 1) |->
           SubSeq(s, IF k = 1 THEN 1 ELSE P[k - 1] + 1,
                     IF k = m + 1 THEN Len(s) ELSE P[k] - 1)]

\* re.sub(r'\*\*([^*]+)\*\*', r'\1', s), scanning from position `from`: the
\* leftmost "**" followed by one or more characters other than "*" and then
\* "**" is replaced by the characters between, and the scan goes on behind.
RECURSIVE SubBold(_, _)
SubBold(s, from) ==
    LET n == Len(s)
        stars == {k \in from..n : s[k] = "*"}
        Close(i) == LET after == {k \in stars : k > i + 2}
                    IN  IF after = {} THEN 0 ELSE Min(after)
        opens == {i \in stars :
                     /\ i + 2 <= n
                     /\ s[i + 1] = "*"
                     /\ s[i + 2] # "*"
                     /\ Close(i) # 0
                     /\ Close(i) + 1 <= n
                     /\ s[Close(i) + 1] = "*"}
    IN  IF opens = {} THEN SubSeq(s, from, n)
        ELSE LET i == Min(opens)
                 j == Close(i)
             IN  SubSeq(s, from, i - 1) \o SubSeq(s, i + 2, j - 1)
                    \o SubBold(s, j + 2)

\* re.sub(r'\*([^*]+)\*', r'\1', s), scanning from position `from`.
RECURSIVE SubItalic(_, _)
SubItalic(s, from) ==
    LET n == Len(s)
        stars == {k \in from..n : s[k] = "*"}
        Close(i) == LET after == {k \in stars : k > i + 1}
                    IN  IF after = {} THEN 0 ELSE Min(after)
        opens == {i \in stars :
                     /\ i + 1 <= n
                     /\ s[i + 1] # "*"
                     /\ Close(i) # 0}
    IN  IF opens = {} THEN SubSeq(s, from, n)
        ELSE LET i == Min(opens)
                 j == Close(i)
             IN  SubSeq(s, from, i - 1) \o SubSeq(s, i + 1, j - 1)
                    \o SubItalic(s, j + 1)

WeChatMaxLength == 400

SentenceBudget == 395

HardCutLength == 395

Ellipsis == <<".", ".", ".">>

\* The loop of _format_wechat_output over the sentences: a sentence and its
\* full stop are added while the result stays within the budget.
RECURSIVE TruncateAtSentence(_, _, _)
TruncateAtSentence(sentences, k, truncated) ==
    IF k > Len(sentences) THEN truncated
    ELSE IF Len(truncated \o sentences[k] \o <<"ju">>) <= SentenceBudget
         THEN TruncateAtSentence(sentences, k + 1,
                                 truncated \o sentences[k] \o <<"ju">>)
         ELSE truncated

format_wechat_output(summary, fname) ==
    LET clean == SubItalic(SubBold(Strip(summary), 1), 1)
    IN  IF Len(clean) > WeChatMaxLength
        THEN LET truncated == TruncateAtSentence(Split(clean, "ju"), 1, <<>>)
             IN  IF truncated # <<>> THEN truncated
                 ELSE SubSeq(clean, 1, HardCutLength) \o Ellipsis
        ELSE clean

-----------------------------------------------------------------------------
(* WeChatSummarizer._fallback_summary and the extractors it calls.         *)

UpperLetters ==
    <<"A", "B", "C", "D", "E", "F", "G", "H", "I", "J", "K", "L", "M",
      "N", "O", "P", "Q", "R", "S", "T", "U", "V", "W", "X", "Y", "Z">>

LowerLetters ==
    <<"a", "b", "c", "d", "e", "f", "g", "h", "i", "j", "k", "l", "m",
      "n", "o", "p", "q", "r", "s", "t", "u", "v", "w", "x", "y", "z">>

\* str.lower()
Lower(s) ==
    [i \in 1..Len(s) |->
        IF \E k \in 1..26 : UpperLetters[k] = s[i]
        THEN LowerLetters[CHOOSE k \in 1..26 : UpperLetters[k] = s[i]]
        ELSE s[i]]

\* seq[:n]
Take(seq, n) == SubSeq(seq, 1, IF Len(seq) < n THEN Len(seq) ELSE n)

\* sep.join(parts)
RECURSIVE Join(_, _)
Join(parts, sep) ==
    IF parts = <<>> THEN <<>>
    ELSE IF Len(parts) = 1 THEN parts[1]
    ELSE parts[1] \o sep \o Join(Tail(parts), sep)

\* str.split() without a separator: the maximal runs of non-whitespace.
Words(s) ==
    LET starts == Sorted({i \in 1..Len(s) :
                            s[i] \notin Whitespace
                            /\ (i = 1 \/ s[i - 1] \in Whitespace)})
        EndOf(i) == Min({j \in i..Len(s) :
                           j = Len(s) \/ s[j + 1] \in Whitespace})
    IN  [k \in 1..Len(starts) |-> SubSeq(s, starts[k], EndOf(starts[k]))]

CompanyKeywords ==
    {<<"gu", "fen4">>, <<"gong", "si">>, <<"ke", "ji4">>, <<"ji3", "tuan">>}

HasCompanyKeyword(s) == \E kw \in CompanyKeywords : Contains(s, kw)

DefaultCompany == <<"mu", "biao", "gong", "si">>

\* _extract_company_name: of the first ten lines, the first word holding a
\* company keyword, cut to ten characters.
extract_company_name(lines) ==
    LET first == Take(lines, 10)
        hits == {k \in 1..Len(first) :
                    /\ HasCompanyKeyword(first[k])
                    /\ \E w \in 1..Len(Words(first[k])) :
                          HasCompanyKeyword(Words(first[k])[w])}
    IN  IF hits = {} THEN DefaultCompany
        ELSE LET words == Words(first[Min(hits)])
                 w == Min({x \in 1..Len(words) : HasCompanyKeyword(words[x])})
             IN  Take(words[w], 10)

\* rating_keywords of _extract_rating, in the order of the dict.
RatingKeywords ==
    << <<<<"b", "u", "y">>,
         <<"mai", "ru">>>>,
       <<<<"o", "v", "e", "r", "w", "e", "i", "g", "h", "t">>,
         <<"zeng", "chi">>>>,
       <<<<"h", "o", "l", "d">>,
         <<"chi", "you">>>>,
       <<<<"s", "e", "l", "l">>,
         <<"mai4", "chu">>>>,
       <<<<"u", "n", "d", "e", "r", "w", "e", "i", "g", "h", "t">>,
         <<"jian", "chi">>>>,
       <<<<"mai", "ru">>,
         <<"mai", "ru">>>>,
       <<<<"zeng", "chi">>,
         <<"zeng", "chi">>>>,
       <<<<"chi", "you">>,
         <<"chi", "you">>>> >>

\* _extract_rating: the rating of the first keyword, in the order of the
\* table, found in the lower-cased first twenty lines.
extract_rating(lines) ==
    LET text == Lower(Join(Take(lines, 20), <<" ">>))
        hits == {k \in 1..Len(RatingKeywords) :
                    Contains(text, RatingKeywords[k][1])}
    IN  IF hits = {} THEN <<>> ELSE RatingKeywords[Min(hits)][2]

Digits == {"0", "1", "2", "3", "4", "5", "6", "7", "8", "9"}

CurrencySigns == {"yen", "$"}

Colons == {"fwcolon", ":"}

\* The last position of the run of digits that starts at i (i - 1: none).
DigitRunEnd(s, i) ==
    CHOOSE j \in (i - 1)..Len(s) :
        /\ \A k \in i..j : s[k] \in Digits
        /\ j = Len(s) \/ s[j + 1] \notin Digits

\* The last position of the run of whitespace that starts at i.
SpaceRunEnd(s, i) ==
    CHOOSE j \in (i - 1)..Len(s) :
        /\ \A k \in i..j : s[k] \in Whitespace
        /\ j = Len(s) \/ s[j + 1] \notin Whitespace

\* Whether ([¥$]?\d+\.?\d*) matches at position g.
PriceAt(s, g) ==
    /\ g <= Len(s)
    /\ \/ s[g] \in Digits
       \/ s[g] \in CurrencySigns /\ g + 1 <= Len(s) /\ s[g + 1] \in Digits

\* The last position of the greedy match of ([¥$]?\d+\.?\d*) at g.
PriceEnd(s, g) ==
    LET d0 == IF s[g] \in CurrencySigns THEN g + 1 ELSE g
        d1 == DigitRunEnd(s, d0)
    IN  IF d1 + 1 <= Len(s) /\ s[d1 + 1] = "."
        THEN DigitRunEnd(s, d1 + 2)
        ELSE d1

\* re.search(lit + r'[：:]?\s*([¥$]?\d+\.?\d*)', s, re.IGNORECASE): the
\* group of the leftmost match, or none.
SearchAfter(s, lit) ==
    LET low == Lower(s)
        GroupStart(i) ==
            LET a == i + Len(lit)
                b == IF a <= Len(s) /\ s[a] \in Colons THEN a + 1 ELSE a
            IN  SpaceRunEnd(s, b) + 1
        hits == {i \in 1..(Len(s) - Len(lit) + 1) :
                    /\ SubSeq(low, i, i + Len(lit) - 1) = lit
                    /\ PriceAt(s, GroupStart(i))}
    IN  IF hits = {} THEN [found |-> FALSE, group |-> <<>>]
        ELSE LET g == GroupStart(Min(hits))
             IN  [found |-> TRUE, group |-> SubSeq(s, g, PriceEnd(s, g))]

\* re.search(r'([¥$]?\d+\.?\d*)\s*' + lit, s, re.IGNORECASE)
SearchBefore(s, lit) ==
    LET LitStart(g) == SpaceRunEnd(s, PriceEnd(s, g) + 1) + 1
        hits == {g \in 1..Len(s) :
                    /\ PriceAt(s, g)
                    /\ LitStart(g) + Len(lit) - 1 <= Len(s)
                    /\ SubSeq(s, LitStart(g), LitStart(g) + Len(lit) - 1) = lit}
    IN  IF hits = {} THEN [found |-> FALSE, group |-> <<>>]
        ELSE LET g == Min(hits)
             IN  [found |-> TRUE, group |-> SubSeq(s, g, PriceEnd(s, g))]

\* _extract_target_price: the first of the four patterns that matches the
\* first twenty lines.
extract_target_price(lines) ==
    LET text == Join(Take(lines, 20), <<" ">>)
        p1 == SearchAfter(text, <<"mu", "biao", "jia">>)
        p2 == SearchAfter(text, <<"t", "a", "r", "g", "e", "t", " ", "p", "r", "i", "c", "e">>)
        p3 == SearchBefore(text, <<"yuan">>)
        p4 == SearchBefore(text, <<"gang", "yuan">>)
    IN  IF p1.found THEN p1.group
        ELSE IF p2.found THEN p2.group
        ELSE IF p3.found THEN p3.group
        ELSE IF p4.found THEN p4.group
        ELSE <<>>

\* sources of _extract_source, in the order of the dict.
SourceNames ==
    << <<<<"j", "p", "m", "o", "r", "g", "a", "n">>,
         <<"mo", "gen", "da", "tong">>>>,
       <<<<"j", "p">>,
         <<"mo", "gen", "da", "tong">>>>,
       <<<<"j", "p", "m">>,
         <<"mo", "gen", "da", "tong">>>>,
       <<<<"g", "o", "l", "d", "m", "a", "n">>,
         <<"gao", "sheng">>>>,
       <<<<"g", "s">>,
         <<"gao", "sheng">>>>,
       <<<<"m", "o", "r", "g", "a", "n">>,
         <<"mo", "gen", "shi", "dan", "li">>>>,
       <<<<"m", "s">>,
         <<"mo", "gen", "shi", "dan", "li">>>>,
       <<<<"c", "i", "t", "i">>,
         <<"hua", "qi">>>>,
       <<<<"c", "i", "t", "i", "g", "r", "o", "u", "p">>,
         <<"hua", "qi">>>>,
       <<<<"u", "b", "s">>,
         <<"rui", "yin">>>>,
       <<<<"c", "r", "e", "d", "i", "t">>,
         <<"rui", "xin">>>>,
       <<<<"b", "o", "f", "a">>,
         <<"mei", "yin">>>>,
       <<<<"b", "a", "n", "k", " ", "o", "f", " ", "a", "m", "e", "r", "i", "c", "a">>,
         <<"mei", "yin">>>> >>

DefaultSource == <<"yan", "jiu", "ji", "gou">>

\* _extract_source: the institution of the first key, in the order of the
\* table, found in the lower-cased filename.
extract_source(fname) ==
    LET low == Lower(fname)
        hits == {k \in 1..Len(SourceNames) : Contains(low, SourceNames[k][1])}
    IN  IF hits = {} THEN DefaultSource ELSE SourceNames[Min(hits)][2]

fallback_summary(text, fname) ==
    LET lines == Split(text, "nl")
        rating == extract_rating(lines)
        target_price == extract_target_price(lines)
    IN  Take(extract_source(fname) \o <<"guan", "dian", ":", " ">> \o extract_company_name(lines)
                \o <<"nl">>
                \o (IF rating # <<>> THEN rating \o <<"ping", "ji2">> ELSE <<>>)
                \o (IF target_price # <<>>
                    THEN <<"dou", "mu", "biao", "jia">> \o target_price ELSE <<>>)
                \o <<"nl", "<page>", " ", "lai", "yuan2", ":", " ">> \o fname,
             WeChatMaxLength)

-----------------------------------------------------------------------------
(* WeChatSummarizer.generate_wechat_summary, one action per block.         *)

WeChatPromptMaxLength == 15000

\* The fixed text of the WeChat prompt before the filename.
WeChatPromptHead == <<"<prompt: wei xin qun fen xiang>", "nl">>

\* _create_wechat_prompt
create_wechat_prompt(text, fname) ==
    LET doc == IF Len(text) > WeChatPromptMaxLength
               THEN SubSeq(text, 1, WeChatPromptMaxLength) \o TruncationMarker
               ELSE text
    IN  WeChatPromptHead \o <<"wen", "dang", ":", " ">> \o fname \o <<"nl", "nei", "rong", ":", " ">> \o doc \o <<"nl">>

\* str(e) of the TypeError len(None) raises.
NoneTypeError ==
    <<"o", "b", "j", "e", "c", "t", " ", "o", "f", " ", "t", "y", "p", "e",
      " ", "'", "N", "o", "n", "e", "T", "y", "p", "e", "'", " ", "h", "a",
      "s", " ", "n", "o", " ", "l", "e", "n", "(", ")">>

\* The string of the outer except block.
ErrorMessage(fname, error) == <<"<cross>", " ", "fen", "xi", "shi1", "bai", ":", " ">> \o fname \o <<"nl", "cuo", "wu", ":", " ">> \o error

\* _summarize_with_deepseek_wechat, _summarize_with_gemini_wechat and
\* _summarize_with_qwen_wechat: the stripped content, or the call raises.
summarize_wechat(p) ==
    [raised |-> api[p].kind # "content",
     text   |-> IF api[p].kind = "content" THEN Strip(api[p].content)
                ELSE <<>>]

OutsideWeChat ==
    <<pc, invoked, requests, result, ncalls, log, combineVars, appVars>>

WeChatReturn(path, s) ==
    /\ w_pc' = "returned"
    /\ w_path' = path
    /\ w_summary' = s

\* The call, up to the prompt: len(pdf_text) raises when pdf_text is None,
\* and the outer except block returns the error message.
generate_wechat_summary ==
    /\ w_pc = "idle"
    /\ IF text_is_str
       THEN /\ w_prompt' = create_wechat_prompt(pdf_text, filename)
            /\ w_pc' = "deepseek"
            /\ UNCHANGED <<w_path, w_summary>>
       ELSE /\ WeChatReturn("error", ErrorMessage(filename, NoneTypeError))
            /\ UNCHANGED w_prompt
    /\ UNCHANGED <<deepseek_available, gemini_available, qwen_available,
                   api, pdf_text, filename, text_is_str>>
    /\ UNCHANGED OutsideWeChat

WeChatDeepSeek ==
    /\ w_pc = "deepseek"
    /\ IF deepseek_available /\ ~summarize_wechat("DeepSeek").raised
       THEN WeChatReturn("formatted",
               format_wechat_output(summarize_wechat("DeepSeek").text,
                                    filename))
       ELSE w_pc' = "gemini" /\ UNCHANGED <<w_path, w_summary>>
    /\ UNCHANGED <<deepseek_available, gemini_available, qwen_available,
                   api, pdf_text, filename, text_is_str, w_prompt>>
    /\ UNCHANGED OutsideWeChat

WeChatGemini ==
    /\ w_pc = "gemini"
    /\ IF gemini_available /\ ~summarize_wechat("Google Gemini").raised
       THEN WeChatReturn("formatted",
               format_wechat_output(summarize_wechat("Google Gemini").text,
                                    filename))
       ELSE w_pc' = "qwen" /\ UNCHANGED <<w_path, w_summary>>
    /\ UNCHANGED <<deepseek_available, gemini_available, qwen_available,
                   api, pdf_text, filename, text_is_str, w_prompt>>
    /\ UNCHANGED OutsideWeChat

WeChatQwen ==
    /\ w_pc = "qwen"
    /\ IF qwen_available /\ ~summarize_wechat("Alibaba Qwen").raised
       THEN WeChatReturn("formatted",
               format_wechat_output(summarize_wechat("Alibaba Qwen").text,
                                    filename))
       ELSE w_pc' = "fallback" /\ UNCHANGED <<w_path, w_summary>>
    /\ UNCHANGED <<deepseek_available, gemini_available, qwen_available,
                   api, pdf_text, filename, text_is_str, w_prompt>>
    /\ UNCHANGED OutsideWeChat

WeChatFallback ==
    /\ w_pc = "fallback"
    /\ WeChatReturn("fallback", fallback_summary(pdf_text, filename))
    /\ UNCHANGED <<deepseek_available, gemini_available, qwen_available,
                   api, pdf_text, filename, text_is_str, w_prompt>>
    /\ UNCHANGED OutsideWeChat

NextWeChat ==
    \/ generate_wechat_summary
    \/ WeChatDeepSeek
    \/ WeChatGemini
    \/ WeChatQwen
    \/ WeChatFallback

Plain(n) == [i \in 1..n |-> "x"]

\* n characters with one full stop, at position k.
WithStop(n, k) == [i \in 1..n |-> IF i = k THEN "ju" ELSE "x"]

\* n characters in sentences of `period` characters.
InSentences(n, period) ==
    [i \in 1..n |-> IF i % period = 0 THEN "ju" ELSE "x"]

\* What a provider may generate: nothing, texts about as long as the budget,
\* texts whose first full stop is at the sentence budget or behind it,
\* sentences, and a text with emphasis markup between whitespace.
GeneratedTexts ==
    {Plain(0), Plain(350), InSentences(500, 100)}
    \cup {Plain(WeChatMaxLength + d) : d \in (0 - MaxDelta)..MaxDelta}
    \cup {WithStop(SentenceBudget + 10, SentenceBudget + d) : d \in 0..MaxDelta}
    \cup {<<" ", "*", "*">> \o Plain(300) \o <<"*", "*", "*">> \o Plain(150)
             \o <<"*", "nl">>}

Filenames ==
    {<<>>,
     <<"G", "S", "_", "r", "e", "p", "o", "r", "t", ".", "p", "d", "f">>,
     Plain(400) \o <<".", "p", "d", "f">>}

ExtractedTexts ==
    {<<"x">>,
     <<"T", "e", "n", "c", "e", "n", "t", "nl", "u817e", "u8baf", "ji3",
       "tuan", " ", "mai", "ru", "nl", "mu", "biao", "jia", ":", " ",
       "yen", "1", "2", ".", "5">>}

\* The summarize_pdf_content call is idle and nothing was sent.
ChainIdle ==
    /\ pc = "idle"
    /\ invoked = <<>>
    /\ requests = [p \in ProviderSet |-> NoRequest]
    /\ result = NoResult
    /\ ncalls = 0
    /\ log = <<>>

InitWeChat ==
    /\ deepseek_available \in BOOLEAN
    /\ gemini_available \in BOOLEAN
    /\ qwen_available \in BOOLEAN
    /\ \E failing \in SUBSET ProviderSet, g \in GeneratedTexts :
          api = [p \in ProviderSet |->
                    IF p \in failing THEN APIError ELSE Answer(g)]
    /\ filename \in Filenames
    /\ \/ text_is_str = TRUE /\ pdf_text \in ExtractedTexts
       \/ text_is_str = FALSE /\ pdf_text = <<>>
    /\ w_pc = "idle"
    /\ w_prompt = <<>>
    /\ w_path = ""
    /\ w_summary = <<>>
    /\ ChainIdle
    /\ CombineIdle
    /\ AppIdle

SpecWeChat == InitWeChat /\ [][NextWeChat]_vars

C6_SummaryPathsWithinBudget ==
    w_pc = "returned" /\ w_path \in {"formatted", "fallback"} =>
       Len(w_summary) <= 400

\* C7: the string generate_wechat_summary returns for a text has at most
\* the 300 characters its docstring states.
C7_AtMost300 ==
    w_pc = "returned" /\ text_is_str => Len(w_summary) <= 300

-----------------------------------------------------------------------------
(* WeChatSummarizer.combine_summaries.                                     *)

NoResultsSentinel ==
    <<"wei", "zhao", "dao", "you", "xiao", "fen", "xi", "jie2", "guo">>

Buy == <<"mai", "ru">>

Overweight == <<"zeng", "chi">>

Hold == <<"chi", "you">>

ViewMarker == <<"guan", "dian", ":">>

ManyInstitutions == <<"duo", "jia1", "ji", "gou">>

NoConsensus == <<"guan1", "zhu">>

CombinedMaxLength == 400

\* summary.split('观点:')[0]: the text before the first view marker.
BeforeViewMarker(summary) ==
    LET at == Min({i \in 1..Len(summary) :
                     i + Len(ViewMarker) - 1 <= Len(summary)
                     /\ SubSeq(summary, i, i + Len(ViewMarker) - 1) = ViewMarker})
    IN  SubSeq(summary, 1, at - 1)

\* The set `sources` after the loop.
SourcesOf(list) ==
    {Strip(BeforeViewMarker(list[i])) :
        i \in {j \in 1..Len(list) : Contains(list[j], ViewMarker)}}

\* What one summary appends to `ratings`: the first of the three keywords
\* it contains, if any.
VoteOf(summary) ==
    IF Contains(summary, Buy) THEN <<Buy>>
    ELSE IF Contains(summary, Overweight) THEN <<Overweight>>
    ELSE IF Contains(summary, Hold) THEN <<Hold>>
    ELSE <<>>

\* The list `ratings` after the loop.
RECURSIVE VotesOf(_)
VotesOf(list) ==
    IF list = <<>> THEN <<>> ELSE VoteOf(Head(list)) \o VotesOf(Tail(list))

\* ratings.count(r)
Count(list, r) == Cardinality({i \in 1..Len(list) : list[i] = r})

\* The elements of set(ratings) for which ratings.count is greatest: max()
\* returns the first of them in the iteration order of the set, which is the
\* order of the string hashes and differs from one process to the next.
MostCommon(list) ==
    {r \in {list[i] : i \in 1..Len(list)} :
        \A q \in {list[i] : i \in 1..Len(list)} : Count(list, q) <= Count(list, r)}

\* str(n)
RECURSIVE Decimal(_)
Decimal(n) ==
    IF n < 10
    THEN <<(<<"0", "1", "2", "3", "4", "5", "6", "7", "8", "9">>)[n + 1]>>
    ELSE Decimal(n \div 10) \o Decimal(n % 10)

\* The f-string of combine_summaries, cut to 400 characters.
CombinedText(source_text, rating, n) ==
    Take(source_text \o <<"zong", "he", "guan", "dian", ":", "nl">>
            \o <<"yi1", "zhi">> \o rating \o <<"ping", "ji2", "nl">>
            \o <<"ji1", "yu">> \o Decimal(n)
            \o <<"fen4", "yan", "bao", "de", "zong", "he", "fen", "xi", "nl">>
            \o <<"xiang", "xi4", "guan", "dian", "qing", "jian4", "shang", "fang", "ge", "ji", "gou", "fen", "xi">>,
         CombinedMaxLength)

\* A mutation of CombineSingle: the single summary is cut like the combined
\* text.
CombineSingle_cut(list) == Take(list[1], CombinedMaxLength)

\* The early return for exactly one summary.
CombineSingle(list) == list[1]

\* The early return for no summary.
CombineNone == NoResultsSentinel

OutsideCombine == <<chainVars, wechatVars, appVars>>

\* most_common_rating: max() returns the first of the most common ratings
\* in the iteration order of set(ratings), the order of the string hashes,
\* so any of them can be the one.
Consensus(list) ==
    IF VotesOf(list) = <<>> THEN {NoConsensus} ELSE MostCommon(VotesOf(list))

\* source_text: list(sources)[:2] takes the first two sources in the
\* iteration order of the set, so any two in any order can be the ones.
SourceTexts(list) ==
    IF SourcesOf(list) = {} THEN {ManyInstitutions}
    ELSE IF Cardinality(SourcesOf(list)) = 1 THEN SourcesOf(list)
    ELSE {a \o <<"dun">> \o b : a \in SourcesOf(list), b \in SourcesOf(list)}
         \ {a \o <<"dun">> \o a : a \in SourcesOf(list)}

\* combine_summaries(summaries)
combine_summaries ==
    /\ c_pc = "ready"
    /\ c_pc' = "done"
    /\ IF summaries = <<>>
       THEN /\ combined' = CombineNone
            /\ UNCHANGED <<ratings, consensus>>
       ELSE IF Len(summaries) = 1
       THEN /\ combined' = CombineSingle(summaries)
            /\ UNCHANGED <<ratings, consensus>>
       ELSE /\ ratings' = VotesOf(summaries)
            /\ \E rating \in Consensus(summaries) :
               \E source_text \in SourceTexts(summaries) :
                  /\ consensus' = rating
                  /\ combined' = CombinedText(source_text, rating,
                                              Len(summaries))
    /\ UNCHANGED summaries
    /\ UNCHANGED OutsideCombine

NextCombine == combine_summaries

\* The summaries combine_summaries is given: outputs of
\* generate_wechat_summary, which have at most 400 characters, with and
\* without a view marker and a rating keyword, and one longer text.
SummaryPool ==
    {<<"gao", "sheng", "guan", "dian", ":", " ", "u817e", "u8baf", " ", "mai", "ru">>,
     <<"rui", "yin", "guan", "dian", ":", " ", "zeng", "chi">>,
     <<"chi", "you">>,
     <<"zeng", "chi", " ", "mai", "ru">>,
     <<"x">>,
     Plain(390) \o ViewMarker \o Buy,
     [i \in 1..390 |-> "y"] \o ViewMarker \o Buy,
     Plain(401)}

\* The provider flags and services play no part in combine_summaries.
ChainUnused ==
    /\ deepseek_available = FALSE
    /\ gemini_available = FALSE
    /\ qwen_available = FALSE
    /\ api = [p \in ProviderSet |-> APIError]
    /\ pdf_text = <<>>
    /\ ChainIdle

InitCombine ==
    /\ summaries \in UNION {[1..n -> SummaryPool] : n \in 0..MaxSummaries}
    /\ c_pc = "ready"
    /\ ratings = <<>>
    /\ consensus = <<>>
    /\ combined = <<>>
    /\ ChainUnused
    /\ WeChatIdle
    /\ AppIdle

SpecCombine == InitCombine /\ [][NextCombine]_vars

-----------------------------------------------------------------------------
\* C8: combine_summaries returns the fixed sentinel for an empty list and,
\* for a list of exactly one summary, that summary character for character,
\* however long it is.
C8_EmptyAndSingle ==
    c_pc = "done" =>
       /\ summaries = <<>> =>
            combined = <<"wei", "zhao", "dao", "you", "xiao", "fen", "xi", "jie2", "guo">>
       /\ Len(summaries) = 1 => combined = summaries[1]

\* A single summary longer than the 400 characters of the combined text has
\* been returned as it is.
C8_Witness ==
    /\ c_pc = "done"
    /\ Len(summaries) = 1
    /\ Len(summaries[1]) > 400
    /\ combined = summaries[1]

\* The number of summaries whose vote is r.
VotesFor(r) ==
    Cardinality({i \in 1..Len(summaries) : VoteOf(summaries[i]) = <<r>>})

Rated == {Buy, Overweight, Hold}

\* The ratings with the greatest number of votes.
Leading == {r \in Rated : VotesFor(r) > 0 /\ \A q \in Rated : VotesFor(q) <= VotesFor(r)}

\* The returned string names rating r as the consensus.
Names(r) == Contains(combined, <<"yi1", "zhi">> \o r)

\* C9: for two or more summaries every summary casts at most one vote, the
\* returned string names a rating with the greatest number of votes, and it
\* names 买入 (Buy) when every summary contains 买入.
C9_NamesMajorityRating ==
    c_pc = "done" /\ Len(summaries) >= 2 =>
       /\ \A i \in 1..Len(summaries) : Len(VoteOf(summaries[i])) <= 1
       /\ Len(ratings) <= Len(summaries)
       /\ Leading # {} => \E r \in Leading : Names(r)
       /\ (\A i \in 1..Len(summaries) : Contains(summaries[i], Buy)) =>
             Names(Buy)

\* What holds instead: the rating combine_summaries picked is one with the
\* greatest number of votes, and the returned string names it whenever the
\* uncut text fits in 400 characters.
C9_PickedRatingLeads ==
    c_pc = "done" /\ Len(summaries) >= 2 /\ Leading # {} =>
       /\ consensus \in Leading
       /\ (\A st \in SourceTexts(summaries) : Len(st) <= 300) => Names(consensus)

\* The first of 买入, 增持, 持有 among the ratings with the most votes.
FirstLeading ==
    IF Buy \in Leading THEN Buy
    ELSE IF Overweight \in Leading THEN Overweight
    ELSE Hold

\* C10: when ratings tie for the greatest number of votes the consensus
\* rating is the first of 买入, 增持, 持有 among them, so that it depends on
\* the summaries alone.
C10_TieBrokenByFixedOrder ==
    c_pc = "done" /\ Len(summaries) >= 2 /\ Leading # {} =>
       consensus = FirstLeading

-----------------------------------------------------------------------------
(* PDFProcessor.remove_watermarks.                                         *)
(*                                                                         *)
(* A path is a directory and a file name.  A document is a sequence of     *)
(* pages; a page of a vector document is a line of glyphs of equal width,  *)
(* and a glyph that a redaction removed leaves a "gap", which is no text.  *)
(* A raster document has the same pages as pictures: no text is extracted  *)
(* from them.                                                              *)

\* tempfile.gettempdir()
TempDir == "tmp"

\* os.path.basename(pdf_path)
basename(path) == path.name

\* os.path.join(temp_dir, name)
join(dir, name) == [dir |-> dir, name |-> name]

\* str.replace(old, new): every occurrence of old, left to right, without
\* overlap.
RECURSIVE ReplaceFrom(_, _, _, _)
ReplaceFrom(str, old, new, from) ==
    IF from > Len(str) THEN <<>>
    ELSE IF from + Len(old) - 1 <= Len(str)
            /\ SubSeq(str, from, from + Len(old) - 1) = old
         THEN new \o ReplaceFrom(str, old, new, from + Len(old))
         ELSE <<str[from]>> \o ReplaceFrom(str, old, new, from + 1)

Replace(str, old, new) == ReplaceFrom(str, old, new, 1)

PdfSuffix == <<".", "p", "d", "f">>

CleanSuffix == <<"_", "c", "l", "e", "a", "n", ".", "p", "d", "f">>

\* A mutation of OutputPath: the name in the temporary directory begins
\* with the directory of the source.
OutputPath_with_directory(path) ==
    join(TempDir,
         <<path.dir, "_">> \o Replace(basename(path), PdfSuffix, CleanSuffix))

\* output_path of both paths of remove_watermarks.
OutputPath(path) ==
    join(TempDir, Replace(basename(path), PdfSuffix, CleanSuffix))

\* The rectangle of a hit is extended by this much to the left and right.
HorizontalMargin == 5

Gap == "gap"

\* page.search_for(needle): the start of every occurrence of the needle on
\* the page, left to right and without overlap; PyMuPDF ignores the letter
\* case, and an empty needle has no occurrence.
RECURSIVE SearchFrom(_, _, _)
SearchFrom(page, needle, from) ==
    IF needle = <<>> \/ from + Len(needle) - 1 > Len(page) THEN <<>>
    ELSE IF Lower(SubSeq(page, from, from + Len(needle) - 1)) = Lower(needle)
         THEN <<from>> \o SearchFrom(page, needle, from + Len(needle))
         ELSE SearchFrom(page, needle, from + 1)

\* A mutation of search_for: a needle is found wherever its first glyph is.
search_for_first_glyph(page, needle) ==
    IF needle = <<>> THEN <<>> ELSE SearchFrom(page, <<needle[1]>>, 1)

search_for(page, needle) == SearchFrom(page, needle, 1)

\* Glyph j of a page lies between (j - 1) * width and j * width.  The
\* rectangle of a hit of n glyphs at glyph i, extended by the margin,
\* overlaps glyph j.
Overlaps(i, n, j, width) ==
    /\ (j - 1) * width < (i + n - 1) * width + HorizontalMargin
    /\ j * width > (i - 1) * width - HorizontalMargin

\* page.add_redact_annot(rect, fill=(1, 1, 1)); page.apply_redactions():
\* every glyph the rectangle overlaps is removed.
apply_redactions(page, i, n, width) ==
    [j \in 1..Len(page) |->
        IF Overlaps(i, n, j, width) THEN Gap ELSE page[j]]

\* The loop over text_instances.
RECURSIVE RedactInstances(_, _, _, _)
RedactInstances(page, hits, n, width) ==
    IF hits = <<>> THEN page
    ELSE RedactInstances(apply_redactions(page, Head(hits), n, width),
                         Tail(hits), n, width)

\* A mutation of RedactPage: the loop over the patterns stops at the first
\* pattern found on the page.
RECURSIVE RedactPage_first_pattern(_, _, _)
RedactPage_first_pattern(page, list, width) ==
    IF list = <<>> THEN page
    ELSE IF search_for(page, Head(list)) # <<>>
         THEN RedactInstances(page, search_for(page, Head(list)),
                              Len(Head(list)), width)
         ELSE RedactPage_first_pattern(page, Tail(list), width)

\* The loop over watermark_list for one page: each pattern is searched on
\* the page as the patterns before it left it.
RECURSIVE RedactPage(_, _, _)
RedactPage(page, list, width) ==
    IF list = <<>> THEN page
    ELSE RedactPage(RedactInstances(page, search_for(page, Head(list)),
                                    Len(Head(list)), width),
                    Tail(list), width)

\* Some pattern of the list had a hit when its turn came: the loop set
\* `modified`.
RECURSIVE FoundOnPage(_, _, _)
FoundOnPage(page, list, width) ==
    IF list = <<>> THEN FALSE
    ELSE \/ search_for(page, Head(list)) # <<>>
         \/ FoundOnPage(RedactInstances(page, search_for(page, Head(list)),
                                        Len(Head(list)), width),
                        Tail(list), width)

\* A document with text, and the same pages as pictures.
Vector(width, pages) == [kind |-> "vector", width |-> width, pages |-> pages]

Raster(doc) == [kind |-> "raster", width |-> doc.width, pages |-> doc.pages]

\* page.get_text()
get_text(doc, n) == IF doc.kind = "vector" THEN doc.pages[n] ELSE <<>>

Exists(path) == path \in DOMAIN disk

\* open(path, "wb") and write.
Write(path, doc) ==
    /\ disk' = [q \in DOMAIN disk \cup {path} |->
                  IF q = path THEN doc ELSE disk[q]]
    /\ written' = written \cup {path}

OutsideRedact ==
    <<chainVars, wechatVars, combineVars, desktopVars, batchVars, emailVars,
      singleVars>>

\* The direct path ends with `return None`, and remove_watermarks goes on
\* to the image path.
DirectFailed(raised) ==
    /\ r_pc' = "images"
    /\ direct_raised' = raised
    /\ UNCHANGED <<d_pages, page_num, modified, disk, written, clean_path>>

\* remove_watermarks(pdf_path, watermark_list) up to the call of the direct
\* path.
remove_watermarks ==
    /\ r_pc = "idle"
    /\ r_pc' = "open"
    /\ UNCHANGED <<src_path, watermark_list, disk, d_pages, page_num, modified,
                   direct_raised, via_images, written, clean_path,
                   imageVars>>
    /\ UNCHANGED OutsideRedact

\* fitz.open(pdf_path): raises for a file that is missing or unreadable.
DirectOpen ==
    /\ r_pc = "open"
    /\ \/ /\ Exists(src_path)
          /\ d_pages' = [n \in 1..Len(disk[src_path].pages) |->
                           get_text(disk[src_path], n)]
          /\ page_num' = 1
          /\ modified' = FALSE
          /\ r_pc' = "pages"
          /\ UNCHANGED <<direct_raised, disk, written, clean_path>>
       \/ DirectFailed(TRUE)
    /\ UNCHANGED <<src_path, watermark_list, via_images, imageVars>>
    /\ UNCHANGED OutsideRedact

\* One round of the loop over the pages; load_page, search_for and
\* apply_redactions can raise.
DirectPage ==
    /\ r_pc = "pages"
    /\ page_num <= Len(d_pages)
    /\ \/ /\ d_pages' = [d_pages EXCEPT ![page_num] =
                           RedactPage(@, watermark_list, disk[src_path].width)]
          /\ modified' = (modified \/ FoundOnPage(d_pages[page_num],
                                                  watermark_list,
                                                  disk[src_path].width))
          /\ page_num' = page_num + 1
          /\ UNCHANGED <<r_pc, direct_raised, disk, written, clean_path>>
       \/ DirectFailed(TRUE)
    /\ UNCHANGED <<src_path, watermark_list, via_images, imageVars>>
    /\ UNCHANGED OutsideRedact

\* A mutation of DirectSave: the document is saved and its path returned
\* whether or not a pattern was found.
DirectSave_always ==
    /\ r_pc = "pages"
    /\ page_num > Len(d_pages)
    /\ \/ /\ OutputPath(src_path) # src_path
          /\ Write(OutputPath(src_path),
                   Vector(disk[src_path].width, d_pages))
          /\ clean_path' = OutputPath(src_path)
          /\ r_pc' = "returned"
          /\ UNCHANGED <<d_pages, page_num, modified, direct_raised>>
       \/ DirectFailed(TRUE)
    /\ UNCHANGED <<src_path, watermark_list, via_images, imageVars>>
    /\ UNCHANGED OutsideRedact

\* After the loop: a modified document is saved to the output path and the
\* path is returned.  doc.save raises when the file cannot be written, and
\* PyMuPDF refuses to save a document over the file it was opened from.
DirectSave ==
    /\ r_pc = "pages"
    /\ page_num > Len(d_pages)
    /\ IF modified
       THEN \/ /\ OutputPath(src_path) # src_path
               /\ Write(OutputPath(src_path),
                        Vector(disk[src_path].width, d_pages))
               /\ clean_path' = OutputPath(src_path)
               /\ r_pc' = "returned"
               /\ UNCHANGED <<d_pages, page_num, modified, direct_raised>>
            \/ DirectFailed(TRUE)
       ELSE DirectFailed(FALSE)
    /\ UNCHANGED <<src_path, watermark_list, via_images, imageVars>>
    /\ UNCHANGED OutsideRedact

\* _remove_watermarks_via_images: the pages are rendered and saved as a
\* document of pictures at the output path; any error is raised again and
\* leaves remove_watermarks as an error.
ViaImages ==
    /\ r_pc = "images"
    /\ via_images' = TRUE
    /\ UNCHANGED imageVars
    /\ \/ /\ Exists(src_path)
          /\ Write(OutputPath(src_path), Raster(disk[src_path]))
          /\ clean_path' = OutputPath(src_path)
          /\ r_pc' = "returned"
       \/ /\ r_pc' = "raised"
          /\ UNCHANGED <<disk, written, clean_path>>
    /\ UNCHANGED <<src_path, watermark_list, d_pages, page_num, modified,
                   direct_raised>>
    /\ UNCHANGED OutsideRedact

NextRedact ==
    \/ remove_watermarks
    \/ DirectOpen
    \/ DirectPage
    \/ DirectSave
    \/ ViaImages

\* The pages of the documents remove_watermarks is given.
PagePool ==
    {<<>>,
     <<"a", "b">>,
     <<"W", "M", "a", "b", "a">>,
     <<"w", "m", "a">>,
     <<"x", "a", "b", "W", "M">>,
     <<"b", "a", "a", "x">>}

\* The patterns remove_watermarks is given.
PatternPool == {<<"W", "M">>, <<"x">>, <<"M", "a">>}

GlyphWidths == {3, 6}

Documents ==
    {Vector(w, pages) :
        w \in GlyphWidths,
        pages \in UNION {[1..n -> PagePool] : n \in 1..MaxPages}}

PatternLists == UNION {[1..n -> PatternPool] : n \in 0..MaxPatterns}

\* Neither the provider chain nor the summarizers are in use.
SummarizersIdle ==
    /\ ChainUnused
    /\ WeChatIdle
    /\ CombineIdle

\* remove_watermarks is about to be called.
InitCallRedact ==
    /\ r_pc = "idle"
    /\ d_pages = <<>>
    /\ page_num = 0
    /\ modified = FALSE
    /\ direct_raised = FALSE
    /\ via_images = FALSE
    /\ written = {}
    /\ clean_path = NoPath
    /\ images = <<>>
    /\ processed_images = <<>>
    /\ caught = {}

InitRedact ==
    /\ src_path = [dir |-> "docs", name |-> <<"r", ".", "p", "d", "f">>]
    /\ watermark_list \in PatternLists
    /\ \E doc \in Documents : disk = [q \in {src_path} |-> doc]
    /\ InitCallRedact
    /\ SummarizersIdle
    /\ DesktopIdle /\ BatchIdle /\ EmailIdle /\ SingleIdle

SpecRedact == InitRedact /\ [][NextRedact]_vars

\* The input paths: in the temporary directory and elsewhere, with the
\* extension in lower case, in upper case, twice and missing.
InputPaths ==
    {[dir |-> d, name |-> n] :
        d \in {TempDir, "docs"},
        n \in {<<"r", ".", "p", "d", "f">>,
               <<"r", ".", "P", "D", "F">>,
               <<"r", ".", "p", "d", "f", ".", "p", "d", "f">>,
               <<"r">>}}

InitPaths ==
    /\ src_path \in InputPaths
    /\ watermark_list \in {<<>>, <<<<"W", "M">>>>}
    /\ \E doc \in {Vector(6, <<page>>) :
                     page \in {<<"a", "b">>, <<"W", "M", "a", "b", "a">>}} :
          disk = [q \in {src_path} |-> doc]
    /\ InitCallRedact
    /\ SummarizersIdle
    /\ DesktopIdle /\ BatchIdle /\ EmailIdle /\ SingleIdle

SpecPaths == InitPaths /\ [][NextRedact]_vars

-----------------------------------------------------------------------------
(* Claims about remove_watermarks.                                         *)

\* The document remove_watermarks was called on, and the one it returned.
InputDocument == disk[src_path]

OutputDocument == disk[clean_path]

\* The needle occurs on the page in some letter case.
OccursOn(page, needle) ==
    /\ needle # <<>>
    /\ \E i \in 1..(Len(page) - Len(needle) + 1) :
          Lower(SubSeq(page, i, i + Len(needle) - 1)) = Lower(needle)

\* Some pattern of the list occurs on the page.
PatternOn(page) ==
    \E k \in 1..Len(watermark_list) : OccursOn(page, watermark_list[k])

\* No pattern occurs on any page of the input document.
NoOccurrence ==
    \A n \in 1..Len(InputDocument.pages) :
       ~PatternOn(get_text(InputDocument, n))

Ended == r_pc \in {"returned", "raised"}

\* C11: the image path is invoked exactly when the direct path found no
\* pattern on any page or caught an error, and then the direct path has
\* written and returned no document.
C11_ImagePathExactlyOnNoneOrError ==
    /\ Ended => (via_images <=> (NoOccurrence \/ direct_raised))
    /\ r_pc = "images" => written = {} /\ clean_path = NoPath
    /\ via_images => \A q \in written : disk[q].kind = "raster"

\* No pattern of a non-empty list occurs in a document with text, the direct
\* path raised nothing, and the image path produced the returned document.
C11_Witness ==
    /\ r_pc = "returned"
    /\ via_images
    /\ ~direct_raised
    /\ NoOccurrence
    /\ watermark_list # <<>>
    /\ \E n \in 1..Len(InputDocument.pages) : InputDocument.pages[n] # <<>>
    /\ OutputDocument.kind = "raster"

\* The needle occurs on the page letter for letter.
ExactlyOn(page, needle) == needle # <<>> /\ Contains(page, needle)

\* The patterns that occur letter for letter in the input document.
PatternsInInput ==
    {k \in 1..Len(watermark_list) :
        \E n \in 1..Len(InputDocument.pages) :
           ExactlyOn(get_text(InputDocument, n), watermark_list[k])}

\* C12: no pattern that occurred letter for letter in the input document can
\* be extracted from any page of the returned document.
C12_NoPatternLeft ==
    r_pc = "returned" =>
       \A k \in PatternsInInput :
          \A n \in 1..Len(OutputDocument.pages) :
             ~ExactlyOn(get_text(OutputDocument, n), watermark_list[k])

\* Two different patterns occurred in the input, on the same page or on
\* two, and the direct path returned the document.
C12_Witness ==
    /\ r_pc = "returned"
    /\ ~via_images
    /\ OutputDocument.kind = "vector"
    /\ \E k, m \in PatternsInInput : watermark_list[k] # watermark_list[m]

C14_NeverWritesInput ==
    \A q \in written : q.dir = TempDir /\ q # src_path

\* What holds instead: every path written to is in the temporary directory,
\* and it is not the input path when the input is outside that directory or
\* its name contains ".pdf" in lower case.
C14_WritesTempDir ==
    \A q \in written :
       /\ q.dir = TempDir
       /\ (src_path.dir # TempDir \/ Contains(src_path.name, PdfSuffix)) =>
             q # src_path

-----------------------------------------------------------------------------
(* Batch analysis: GTJAReportProcessor.analyze_batch and                   *)
(* _analyze_batch_thread.  The worker posts its output to the interface    *)
(* thread with root.after(0, ...); the interface thread runs the posted    *)
(* callbacks one at a time, oldest first.                                  *)

\* What generate_wechat_summary(text, fname) returns for a text that is a
\* string: the formatted answer of the first available provider that does
\* not raise, else the fallback summary.
wechat_summary(text, fname) ==
    IF deepseek_available /\ ~summarize_wechat("DeepSeek").raised
    THEN format_wechat_output(summarize_wechat("DeepSeek").text, fname)
    ELSE IF gemini_available /\ ~summarize_wechat("Google Gemini").raised
    THEN format_wechat_output(summarize_wechat("Google Gemini").text, fname)
    ELSE IF qwen_available /\ ~summarize_wechat("Alibaba Qwen").raised
    THEN format_wechat_output(summarize_wechat("Alibaba Qwen").text, fname)
    ELSE fallback_summary(text, fname)

\* What combine_summaries(list) can return.
combine_results(list) ==
    IF list = <<>> THEN {CombineNone}
    ELSE IF Len(list) = 1 THEN {CombineSingle(list)}
    ELSE {CombinedText(source_text, rating, Len(list)) :
             source_text \in SourceTexts(list), rating \in Consensus(list)}

\* file.lower().endswith('.pdf')
EndsWithPdf(name) ==
    /\ Len(name) >= Len(PdfSuffix)
    /\ SubSeq(Lower(name), Len(name) - Len(PdfSuffix) + 1, Len(name)) = PdfSuffix

IsPdfEntry(entry) == EndsWithPdf(entry.name)

\* os.path.exists(folder)
FolderExists(path) == path = "reports"

\* What is inserted in the results box.
Item(kind, file, text) == [kind |-> kind, file |-> file, text |-> text]

\* The callbacks a worker posts.
Insert(item) == [do |-> "insert", item |-> item]

Show(kind, text) == [do |-> kind, item |-> Item("dialog", <<>>, text)]

Do(what) == [do |-> what, item |-> Item("", <<>>, <<>>)]

Post(callbacks) == ui_queue' = ui_queue \o callbacks

\* The finally block of _analyze_batch_thread.
BatchFinally == <<Do("enable_batch"), Do("stop_batch_progress")>>

MessageBox(kind, text) == dialogs' = Append(dialogs, [kind |-> kind, text |-> text])

OutsideBatch ==
    <<chainVars, wechatVars, combineVars, redactVars, emailVars, singleVars>>

\* The error box of the batch worker for the exception "configuration file
\* missing" that LLMSummarizer() raises.
ConfigMissing == "batch analysis failed: configuration file missing"

\* analyze_batch: the handler of the batch button, which can be pressed
\* while it is enabled.
analyze_batch ==
    /\ batch_button = "normal"
    /\ clicks < MaxClicks
    /\ clicks' = clicks + 1
    /\ IF folder_path = ""
       THEN /\ MessageBox("showerror", "Please select a folder containing PDFs.")
            /\ UNCHANGED <<batch_button, batch_progress, results_text, b_pc,
                           workers>>
       ELSE IF ~FolderExists(folder_path)
       THEN /\ MessageBox("showerror", "Selected folder does not exist.")
            /\ UNCHANGED <<batch_button, batch_progress, results_text, b_pc,
                           workers>>
       ELSE /\ results_text' = <<>>
            /\ batch_button' = "disabled"
            /\ batch_progress' = TRUE
            /\ b_pc' = "list"
            /\ workers' = workers + 1
            /\ UNCHANGED dialogs
    /\ UNCHANGED <<config_present, ui_queue, folder_path, folder, pdf_files,
                   file_index, all_summaries>>
    /\ UNCHANGED OutsideBatch

\* A mutation of BatchList: the early return for a folder without PDF
\* files leaves the worker before the try block, without the finally block.
BatchList_returns_early ==
    /\ b_pc = "list"
    /\ \/ /\ SelectSeq(folder, IsPdfEntry) = <<>>
          /\ pdf_files' = <<>>
          /\ Post(<<Show("showwarning",
                         "No PDF files found in the selected folder.")>>)
          /\ b_pc' = "done"
          /\ UNCHANGED <<file_index, all_summaries>>
       \/ /\ SelectSeq(folder, IsPdfEntry) # <<>>
          /\ pdf_files' = SelectSeq(folder, IsPdfEntry)
          /\ IF config_present
             THEN /\ all_summaries' = <<>>
                  /\ file_index' = 1
                  /\ b_pc' = "files"
                  /\ UNCHANGED ui_queue
             ELSE /\ Post(<<Show("showerror", ConfigMissing)>>
                          \o BatchFinally)
                  /\ b_pc' = "done"
                  /\ UNCHANGED <<file_index, all_summaries>>
       \/ /\ Post(<<Show("showerror", "batch analysis failed")>>
                  \o BatchFinally)
          /\ b_pc' = "done"
          /\ UNCHANGED <<pdf_files, file_index, all_summaries>>
    /\ UNCHANGED <<config_present, dialogs, workers, clicks, folder_path,
                   folder, batch_button, batch_progress, results_text>>
    /\ UNCHANGED OutsideBatch

\* The worker up to the loop: the folder is listed, the PDF entries are
\* kept, and the summarizer is constructed.  os.listdir can raise, and the
\* constructor raises without the configuration.
BatchList ==
    /\ b_pc = "list"
    /\ \/ /\ SelectSeq(folder, IsPdfEntry) = <<>>
          /\ pdf_files' = <<>>
          /\ Post(<<Show("showwarning",
                         "No PDF files found in the selected folder.")>>
                  \o BatchFinally)
          /\ b_pc' = "done"
          /\ UNCHANGED <<file_index, all_summaries>>
       \/ /\ SelectSeq(folder, IsPdfEntry) # <<>>
          /\ pdf_files' = SelectSeq(folder, IsPdfEntry)
          /\ IF config_present
             THEN /\ all_summaries' = <<>>
                  /\ file_index' = 1
                  /\ b_pc' = "files"
                  /\ UNCHANGED ui_queue
             ELSE /\ Post(<<Show("showerror", ConfigMissing)>>
                          \o BatchFinally)
                  /\ b_pc' = "done"
                  /\ UNCHANGED <<file_index, all_summaries>>
       \/ /\ Post(<<Show("showerror", "batch analysis failed")>>
                  \o BatchFinally)
          /\ b_pc' = "done"
          /\ UNCHANGED <<pdf_files, file_index, all_summaries>>
    /\ UNCHANGED <<config_present, dialogs, workers, clicks, folder_path,
                   folder, batch_button, batch_progress, results_text>>
    /\ UNCHANGED OutsideBatch

\* A mutation of BatchFile: an error of one file ends the loop.
BatchFile_stops_on_error ==
    /\ b_pc = "files"
    /\ file_index <= Len(pdf_files)
    /\ LET entry == pdf_files[file_index]
           summary == wechat_summary(entry.text, entry.name)
       IN  IF ~entry.readable
           THEN /\ Post(<<Insert(Item("progress", entry.name, <<>>)),
                          Insert(Item("error", entry.name, <<>>))>>)
                /\ UNCHANGED all_summaries
           ELSE IF Strip(entry.text) # <<>>
           THEN /\ all_summaries' = Append(all_summaries, summary)
                /\ Post(<<Insert(Item("progress", entry.name, <<>>)),
                          Insert(Item("summary", <<>>, summary))>>)
           ELSE /\ Post(<<Insert(Item("progress", entry.name, <<>>)),
                          Insert(Item("notice", entry.name, <<>>))>>)
                /\ UNCHANGED all_summaries
    /\ file_index' = IF pdf_files[file_index].readable THEN file_index + 1
                      ELSE Len(pdf_files) + 1
    /\ UNCHANGED <<config_present, dialogs, workers, clicks, folder_path,
                   folder, batch_button, batch_progress, results_text, b_pc,
                   pdf_files>>
    /\ UNCHANGED OutsideBatch

\* One round of the loop over pdf_files: the progress line, the text
\* extraction, and the summary, the notice or the error line.
BatchFile ==
    /\ b_pc = "files"
    /\ file_index <= Len(pdf_files)
    /\ LET entry == pdf_files[file_index]
           summary == wechat_summary(entry.text, entry.name)
       IN  IF ~entry.readable
           THEN /\ Post(<<Insert(Item("progress", entry.name, <<>>)),
                          Insert(Item("error", entry.name, <<>>))>>)
                /\ UNCHANGED all_summaries
           ELSE IF Strip(entry.text) # <<>>
           THEN /\ all_summaries' = Append(all_summaries, summary)
                /\ Post(<<Insert(Item("progress", entry.name, <<>>)),
                          Insert(Item("summary", <<>>, summary))>>)
           ELSE /\ Post(<<Insert(Item("progress", entry.name, <<>>)),
                          Insert(Item("notice", entry.name, <<>>))>>)
                /\ UNCHANGED all_summaries
    /\ file_index' = file_index + 1
    /\ UNCHANGED <<config_present, dialogs, workers, clicks, folder_path,
                   folder, batch_button, batch_progress, results_text, b_pc,
                   pdf_files>>
    /\ UNCHANGED OutsideBatch

\* A mutation of BatchFinish: a single summary is combined as well.
BatchFinish_combines_one ==
    /\ b_pc = "files"
    /\ file_index > Len(pdf_files)
    /\ IF Len(all_summaries) >= 1
       THEN \E combined_summary \in combine_results(all_summaries) :
               Post(<<Insert(Item("combined", <<>>, combined_summary)),
                      Insert(Item("completed", <<>>, Decimal(Len(pdf_files))))>>
                    \o BatchFinally)
       ELSE Post(<<Insert(Item("completed", <<>>, Decimal(Len(pdf_files))))>>
                 \o BatchFinally)
    /\ b_pc' = "done"
    /\ UNCHANGED <<config_present, dialogs, workers, clicks, folder_path,
                   folder, batch_button, batch_progress, results_text,
                   pdf_files, file_index, all_summaries>>
    /\ UNCHANGED OutsideBatch

\* After the loop: the combined summary of more than one summary, the
\* completion line and the finally block.
BatchFinish ==
    /\ b_pc = "files"
    /\ file_index > Len(pdf_files)
    /\ IF Len(all_summaries) > 1
       THEN \E combined_summary \in combine_results(all_summaries) :
               Post(<<Insert(Item("combined", <<>>, combined_summary)),
                      Insert(Item("completed", <<>>, Decimal(Len(pdf_files))))>>
                    \o BatchFinally)
       ELSE Post(<<Insert(Item("completed", <<>>, Decimal(Len(pdf_files))))>>
                 \o BatchFinally)
    /\ b_pc' = "done"
    /\ UNCHANGED <<config_present, dialogs, workers, clicks, folder_path,
                   folder, batch_button, batch_progress, results_text,
                   pdf_files, file_index, all_summaries>>
    /\ UNCHANGED OutsideBatch

\* The interface thread runs the oldest posted callback of a batch worker.
RunBatchCallback ==
    /\ ui_queue # <<>>
    /\ Head(ui_queue).do \in {"insert", "showwarning", "showerror",
                               "enable_batch", "stop_batch_progress"}
    /\ ui_queue' = Tail(ui_queue)
    /\ LET callback == Head(ui_queue)
       IN  CASE callback.do = "insert" ->
                   /\ results_text' = Append(results_text, callback.item)
                   /\ UNCHANGED <<dialogs, batch_button, batch_progress>>
             [] callback.do \in {"showwarning", "showerror"} ->
                   /\ MessageBox(callback.do, callback.item.text)
                   /\ UNCHANGED <<results_text, batch_button, batch_progress>>
             [] callback.do = "enable_batch" ->
                   /\ batch_button' = "normal"
                   /\ UNCHANGED <<results_text, dialogs, batch_progress>>
             [] callback.do = "stop_batch_progress" ->
                   /\ batch_progress' = FALSE
                   /\ UNCHANGED <<results_text, dialogs, batch_button>>
    /\ UNCHANGED <<config_present, workers, clicks, folder_path, folder, b_pc,
                   pdf_files, file_index, all_summaries>>
    /\ UNCHANGED OutsideBatch

NextBatch ==
    \/ analyze_batch
    \/ BatchList
    \/ BatchFile
    \/ BatchFinish
    \/ RunBatchCallback

Entry(name, readable, text) ==
    [name |-> name, readable |-> readable, text |-> text]

\* The entries of a directory: PDF files with text, with the extension in
\* upper case, without text, with blank text, one that cannot be read, and a
\* file that is no PDF.
Directory ==
    <<Entry(<<"a", ".", "p", "d", "f">>, TRUE,
            <<"T", "e", "n", "c", "e", "n", "t", "nl", "mai", "ru">>),
      Entry(<<"c", ".", "p", "d", "f">>, TRUE, <<>>),
      Entry(<<"G", "S", ".", "P", "D", "F">>, TRUE, <<"zeng", "chi">>),
      Entry(<<"d", ".", "p", "d", "f">>, TRUE, <<" ", "nl">>),
      Entry(<<"e", ".", "p", "d", "f">>, FALSE, <<>>),
      Entry(<<"n", ".", "t", "x", "t">>, TRUE, <<"x">>)>>

\* The entries of the directory at the places S, in the order of the
\* directory.
Pick(S) ==
    [k \in 1..Cardinality(S) |->
        Directory[CHOOSE i \in S : Cardinality({j \in S : j < i}) = k - 1]]

Reverse(s) == [k \in 1..Len(s) |-> s[Len(s) + 1 - k]]

\* The listings of a folder: some entries of the directory, in its order
\* or in the opposite order.
Listings ==
    UNION {{Pick(S), Reverse(Pick(S))} :
             S \in {T \in SUBSET (1..Len(Directory)) :
                       Cardinality(T) <= MaxFiles}}

\* What a provider answers in a batch run.
BatchAnswer ==
    Answer(<<"gao", "sheng", "guan", "dian", ":", " ", "mai", "ru", "nl">>)

InitBatch ==
    /\ \/ /\ folder_path = "reports"
          /\ folder \in Listings
          /\ config_present \in BOOLEAN
          /\ deepseek_available \in BOOLEAN
          /\ api = [p \in ProviderSet |-> BatchAnswer]
       \/ /\ folder_path \in {"", "gone"}
          /\ folder = <<>>
          /\ config_present = TRUE
          /\ deepseek_available = FALSE
          /\ api = [p \in ProviderSet |-> APIError]
    /\ gemini_available = FALSE
    /\ qwen_available = FALSE
    /\ pdf_text = <<>>
    /\ ChainIdle
    /\ WeChatIdle
    /\ CombineIdle
    /\ RedactIdle
    /\ EmailIdle
    /\ SingleIdle
    /\ ui_queue = <<>>
    /\ dialogs = <<>>
    /\ workers = 0
    /\ clicks = 0
    /\ batch_button = "normal"
    /\ batch_progress = FALSE
    /\ results_text = <<>>
    /\ b_pc = "idle"
    /\ pdf_files = <<>>
    /\ file_index = 0
    /\ all_summaries = <<>>

SpecBatch == InitBatch /\ [][NextBatch]_vars

-----------------------------------------------------------------------------
(* Claims about the batch analysis.                                        *)

\* What the run has inserted in the results box or posted for insertion.
Emitted ==
    LET posted == SelectSeq(ui_queue, LAMBDA callback : callback.do = "insert")
    IN  results_text \o [k \in 1..Len(posted) |-> posted[k].item]

\* The PDF entries of the folder.
FolderPdfs == SelectSeq(folder, IsPdfEntry)

\* The places of the items of a kind.
ItemsOfKind(kind) == {k \in 1..Len(Emitted) : Emitted[k].kind = kind}

\* The places of the items of a kind that follow the progress line of the
\* file of that name.
ItemsOf(name, kind) ==
    {k \in ItemsOfKind(kind) :
        k > 1 /\ Emitted[k - 1] = Item("progress", name, <<>>)}

\* The individual summaries the run emitted, in their order.
EmittedSummaries ==
    LET items == SelectSeq(Emitted, LAMBDA item : item.kind = "summary")
    IN  [k \in 1..Len(items) |-> items[k].text]

\* At most one combined summary; with two summaries or more exactly one,
\* computed from the individual summaries.
OneCombinedSummary ==
    /\ Cardinality(ItemsOfKind("combined")) =
          IF Len(EmittedSummaries) >= 2 THEN 1 ELSE 0
    /\ \A k \in ItemsOfKind("combined") :
          Emitted[k].text \in combine_results(EmittedSummaries)

\* The run got through the loop over the files to its completion line.
Completed == b_pc = "done" /\ ItemsOfKind("completed") # {}

-----------------------------------------------------------------------------
(* The HTML of the summary in the email body: EmailSender's                *)
(* _format_summary_html_lotus_notes and the helpers it calls.  A tag with  *)
(* its attributes is one token.                                            *)

\* s.startswith(prefix)
StartsWith(s, prefix) ==
    /\ Len(s) >= Len(prefix)
    /\ SubSeq(s, 1, Len(prefix)) = prefix

\* s[from:] and s[from:-back], counted as Python does, from 0.
Slice(s, from, back) ==
    IF from + 1 > Len(s) - back THEN <<>>
    ELSE SubSeq(s, from + 1, Len(s) - back)

PlainMarker == <<"#", "#", " ">>

BoldMarker == <<"*", "*", "#", "#", " ">>

\* `line.startswith('## ') or line.startswith('**## ')`
IsHeaderLine(line) ==
    StartsWith(line, PlainMarker) \/ StartsWith(line, BoldMarker)

\* current_section of a header line: line[5:-2].strip() behind "**## ",
\* whatever the last two characters are, and line[3:].strip() behind "## ".
SectionTitle(line) ==
    IF StartsWith(line, BoldMarker) THEN Strip(Slice(line, 5, 2))
    ELSE Strip(Slice(line, 3, 0))

\* The loop over the lines from line k on, with the section being read, its
\* content and the sections saved so far; at the end the last section is
\* saved.  A section is saved when its title and its content are not empty.
RECURSIVE SectionsFrom(_, _, _, _, _)
SectionsFrom(lines, k, current_section, current_content, sections) ==
    LET saved == IF current_section # <<>> /\ current_content # <<>>
                 THEN Append(sections, [title |-> current_section,
                                        content |-> current_content])
                 ELSE sections
    IN  IF k > Len(lines) THEN saved
        ELSE LET line == Strip(lines[k])
             IN  IF line = <<>>
                 THEN SectionsFrom(lines, k + 1, current_section,
                                   current_content, sections)
                 ELSE IF IsHeaderLine(line)
                 THEN SectionsFrom(lines, k + 1, SectionTitle(line), <<>>,
                                   saved)
                 ELSE SectionsFrom(lines, k + 1, current_section,
                                   Append(current_content, line), sections)

\* sections of _format_summary_html_lotus_notes
Sections(text) ==
    SectionsFrom(Split(text, "nl"), 1, <<>>, <<>>, <<>>)

KeyMark == <<":", "*", "*">>

\* The item a content line gives in _process_section_content_lotus_notes; a
\* content line of a section never starts with "**## ".
ItemOf(line) ==
    IF StartsWith(line, <<"-", " ", "*", "*">>) /\ Contains(line, KeyMark)
    THEN LET at == Min({i \in 1..(Len(line) - 2) :
                           SubSeq(line, i, i + 2) = KeyMark})
         IN  <<"<strong>">> \o Strip(SubSeq(line, 3, at - 1))
                \o <<":", "</strong>", " ">>
                \o Strip(SubSeq(line, at + 3, Len(line)))
    ELSE IF StartsWith(line, <<"-", " ", "*", "*">>)
    THEN <<"<strong>">> \o Slice(line, 2, 0) \o <<"</strong>">>
    ELSE IF StartsWith(line, <<"-", " ">>) THEN Slice(line, 2, 0)
    ELSE line

\* _create_items_html_lotus_notes: one table for each item that is not
\* blank, joined by newlines.
create_items_html_lotus_notes(items) ==
    LET kept == SelectSeq(items, LAMBDA item : Strip(item) # <<>>)
    IN  Join([k \in 1..Len(kept) |->
                 <<"<table item>", "bullet", " ">> \o kept[k]
                    \o <<"</table>">>],
             <<"nl">>)

\* _process_section_content_lotus_notes for the content of a section.
process_section_content_lotus_notes(content) ==
    create_items_html_lotus_notes([k \in 1..Len(content) |->
                                      ItemOf(content[k])])

\* _create_lotus_notes_section
create_lotus_notes_section(title, content) ==
    IF content = <<>> THEN <<>>
    ELSE <<"<table section>", "<td title>">> \o title \o <<"</td>", "<td>">>
            \o process_section_content_lotus_notes(content)
            \o <<"</td>", "</table>">>

\* _format_summary_html_lotus_notes: the sections, joined by newlines.
format_summary_html_lotus_notes(text) ==
    LET sections == Sections(text)
    IN  Join([k \in 1..Len(sections) |->
                 create_lotus_notes_section(sections[k].title,
                                            sections[k].content)],
             <<"nl">>)

-----------------------------------------------------------------------------
(* EmailSender.send_pdf_summary_email.  The whole body of the method is in *)
(* one try block whose handler returns False; every call into smtplib can  *)
(* raise.                                                                  *)

\* msg['Subject']
Subject(original_filename) ==
    <<"R", "e", "s", "e", "a", "r", "c", "h", " ", "R", "e", "p", "o", "r",
      "t", " ", "-", " ">> \o original_filename

\* html_body: the formatted summary inside the fixed page, above the note
\* about the attachment.
html_body(text) ==
    <<"<html>">> \o format_summary_html_lotus_notes(text)
       \o <<"<attachment: PDF document>", "</html>">>

\* The MIMEBase part of the PDF file.
Attachment(name, data) == [filename |-> name, data |-> data]

OutsideEmail ==
    <<chainVars, wechatVars, combineVars, redactVars, desktopVars, batchVars,
      singleVars>>

\* `return value` of send_pdf_summary_email.
EmailReturn(value) ==
    /\ e_pc' = "returned"
    /\ e_result' = value

\* send_pdf_summary_email up to the check of the PDF file: the message gets
\* its recipient, its subject and its body.
send_pdf_summary_email ==
    /\ e_pc = "called"
    /\ e_msg' = [to |-> e_args.recipient_email,
                 subject |-> Subject(e_args.original_filename),
                 body |-> html_body(e_args.summary_text),
                 attachments |-> <<>>]
    /\ e_pc' = "attach"
    /\ UNCHANGED <<e_args, e_result, connections, outbox>>
    /\ UNCHANGED OutsideEmail

\* A mutation of EmailAttach: a message without the file is sent when the
\* file does not exist.
EmailAttach_without_file ==
    /\ e_pc = "attach"
    /\ \/ /\ Exists(e_args.pdf_path)
          /\ e_msg' = [e_msg EXCEPT !.attachments =
                          <<Attachment(e_args.original_filename,
                                       disk[e_args.pdf_path])>>]
          /\ e_pc' = "connect"
          /\ UNCHANGED e_result
       \/ /\ ~Exists(e_args.pdf_path)
          /\ e_pc' = "connect"
          /\ UNCHANGED <<e_msg, e_result>>
    /\ UNCHANGED <<e_args, connections, outbox>>
    /\ UNCHANGED OutsideEmail

\* The file at pdf_path is read and attached under the original file name;
\* reading can raise; without the file the method returns False.
EmailAttach ==
    /\ e_pc = "attach"
    /\ \/ /\ Exists(e_args.pdf_path)
          /\ e_msg' = [e_msg EXCEPT !.attachments =
                          <<Attachment(e_args.original_filename,
                                       disk[e_args.pdf_path])>>]
          /\ e_pc' = "connect"
          /\ UNCHANGED e_result
       \/ /\ Exists(e_args.pdf_path)
          /\ EmailReturn(FALSE)
          /\ UNCHANGED e_msg
       \/ /\ ~Exists(e_args.pdf_path)
          /\ EmailReturn(FALSE)
          /\ UNCHANGED e_msg
    /\ UNCHANGED <<e_args, connections, outbox>>
    /\ UNCHANGED OutsideEmail

\* smtplib.SMTP(smtp_server, smtp_port): a connection is opened, or the
\* attempt raises.
EmailConnect ==
    /\ e_pc = "connect"
    /\ connections' = connections + 1
    /\ \/ e_pc' = "starttls" /\ UNCHANGED e_result
       \/ EmailReturn(FALSE)
    /\ UNCHANGED <<e_args, e_msg, outbox>>
    /\ UNCHANGED OutsideEmail

\* server.starttls()
EmailStartTls ==
    /\ e_pc = "starttls"
    /\ \/ e_pc' = "login" /\ UNCHANGED e_result
       \/ EmailReturn(FALSE)
    /\ UNCHANGED <<e_args, e_msg, connections, outbox>>
    /\ UNCHANGED OutsideEmail

\* server.login(username, password)
EmailLogin ==
    /\ e_pc = "login"
    /\ \/ e_pc' = "sendmail" /\ UNCHANGED e_result
       \/ EmailReturn(FALSE)
    /\ UNCHANGED <<e_args, e_msg, connections, outbox>>
    /\ UNCHANGED OutsideEmail

\* server.sendmail(account, recipient_email, msg.as_string())
EmailSendmail ==
    /\ e_pc = "sendmail"
    /\ \/ /\ outbox' = Append(outbox, e_msg)
          /\ e_pc' = "quit"
          /\ UNCHANGED e_result
       \/ /\ EmailReturn(FALSE)
          /\ UNCHANGED outbox
    /\ UNCHANGED <<e_args, e_msg, connections>>
    /\ UNCHANGED OutsideEmail

\* server.quit() and `return True`; an error of quit is caught as well.
EmailQuit ==
    /\ e_pc = "quit"
    /\ \/ EmailReturn(TRUE)
       \/ EmailReturn(FALSE)
    /\ UNCHANGED <<e_args, e_msg, connections, outbox>>
    /\ UNCHANGED OutsideEmail

NextEmail ==
    \/ send_pdf_summary_email
    \/ EmailAttach
    \/ EmailConnect
    \/ EmailStartTls
    \/ EmailLogin
    \/ EmailSendmail
    \/ EmailQuit

\* The recipients given to send_pdf_summary_email.
Recipients ==
    {<<"a", "@", "b", ".", "c">>, <<"x", "@", "y", ".", "h", "k">>}

\* The file that exists when send_pdf_summary_email is called.
CleanFile == [dir |-> "out", name |-> <<"r", ".", "p", "d", "f">>]

MissingFile == [dir |-> "out", name |-> <<"g", "o", "n", "e", ".", "p", "d", "f">>]

InitEmail ==
    /\ \E doc \in {Vector(6, <<page>>) : page \in PagePool} :
          disk = [q \in {CleanFile} |-> doc]
    /\ \E to \in Recipients, path \in {CleanFile, MissingFile},
          text \in {<<>>, <<"mai", "ru">>} :
          e_args = [recipient_email |-> to, pdf_path |-> path,
                    summary_text |-> text,
                    original_filename |-> <<"r", ".", "p", "d", "f">>]
    /\ e_pc = "called"
    /\ e_msg = NoMessage
    /\ e_result = FALSE
    /\ connections = 0
    /\ outbox = <<>>
    /\ src_path = NoPath
    /\ watermark_list = <<>>
    /\ InitCallRedact
    /\ SummarizersIdle
    /\ DesktopIdle
    /\ BatchIdle
    /\ SingleIdle

SpecEmail == InitEmail /\ [][NextEmail]_vars

-----------------------------------------------------------------------------
(* Claims about send_pdf_summary_email.                                    *)

\* The message of the call with the file attached.
MessageWithAttachment ==
    [to |-> e_args.recipient_email,
     subject |-> Subject(e_args.original_filename),
     body |-> html_body(e_args.summary_text),
     attachments |-> <<Attachment(e_args.original_filename,
                                  disk[e_args.pdf_path])>>]

\* C16: send_pdf_summary_email ends by returning a boolean; when the file
\* does not exist it opens no connection and returns False; it returns True
\* only when a connection was opened and the message with the attachment
\* was handed to the server, so that a failure to connect, to authenticate
\* or to send makes it return False.
C16_TrueOnlyAfterHandOver ==
    /\ e_pc \in {"idle", "called", "attach", "connect", "starttls", "login",
                 "sendmail", "quit", "returned"}
    /\ e_result \in BOOLEAN
    /\ ~Exists(e_args.pdf_path) =>
          /\ connections = 0
          /\ outbox = <<>>
          /\ e_pc \in {"called", "attach", "returned"}
          /\ e_result = FALSE
    /\ e_result = TRUE =>
          /\ e_pc = "returned"
          /\ connections = 1
          /\ outbox = <<MessageWithAttachment>>
    /\ e_pc \in {"called", "attach", "connect", "starttls", "login",
                 "sendmail"} => outbox = <<>>

\* A call returned True: the file exists and its message was handed over.
C16_Witness ==
    /\ e_pc = "returned"
    /\ e_result = TRUE
    /\ Exists(e_args.pdf_path)
    /\ outbox # <<>>

-----------------------------------------------------------------------------
(* Single-document processing: GTJAReportProcessor.process_pdf, the worker *)
(* _process_pdf_thread with _summarize_pdf_content and _send_email, and    *)
(* the completion callback _process_complete.  The worker calls            *)
(* remove_watermarks and send_pdf_summary_email, whose steps are the       *)
(* actions above.                                                          *)

\* `ch in s`
Has(s, ch) == \E i \in 1..Len(s) : s[i] = ch

\* The text of a path.
PathText(path) == <<path.dir, "/">> \o path.name

\* PDFProcessor.extract_text of a document: the texts of its pages, one
\* after the other.
RECURSIVE PagesText(_, _)
PagesText(doc, n) ==
    IF n > Len(doc.pages) THEN <<>>
    ELSE get_text(doc, n) \o PagesText(doc, n + 1)

extract_text(doc) == PagesText(doc, 1)

\* What summarize_pdf_content(text) returns as the summary: the stripped
\* answer of the first available provider that does not raise, else "".
chain_summary(text) ==
    IF deepseek_available /\ ~summarize_with_deepseek(text).raised
    THEN summarize_with_deepseek(text).text
    ELSE IF gemini_available /\ ~summarize_with_gemini(text).raised
    THEN summarize_with_gemini(text).text
    ELSE IF qwen_available /\ ~summarize_with_qwen(text).raised
    THEN summarize_with_qwen(text).text
    ELSE <<>>

\* _summarize_pdf_content: "" when the text cannot be extracted, when it is
\* blank and when LLMSummarizer() raises for want of the configuration,
\* else the summary of the provider chain.
summarize_content(path) ==
    IF ~Exists(path) THEN <<>>
    ELSE IF Strip(extract_text(disk[path])) = <<>> THEN <<>>
    ELSE IF ~config_present THEN <<>>
    ELSE chain_summary(extract_text(disk[path]))

\* A part of the completion message: a fixed text and what is put in it.
Part(text, arg) == [text |-> text, arg |-> arg]

Saved(path) == Part("Success! Clean PDF saved to:", PathText(path))

SummaryShown == Part("AI summary displayed in terminal above.", <<>>)

SummaryFailed == Part("AI summary failed - only PDF processed.", <<>>)

EmailSent(to) == Part("Email sent successfully to:", to)

ErrorText(what) == Part("Error:", <<what>>)

\* root.after(0, self._process_complete, success, message)
Complete(success, message) ==
    [do |-> "_process_complete",
     item |-> Item(IF success THEN "success" ELSE "failure", <<>>, message)]

OutsideSingle == <<chainVars, wechatVars, combineVars, batchVars>>

\* A mutation of process_pdf: the recipient is validated as it was typed,
\* blanks included.
process_pdf_untrimmed ==
    /\ process_button = "normal"
    /\ clicks < MaxClicks
    /\ clicks' = clicks + 1
    /\ LET email == email_recipient
       IN  IF pdf_path = NoPath
           THEN /\ MessageBox("showerror", "Please select a PDF file")
                /\ UNCHANGED <<process_button, progress, status_label, p_pc,
                               workers, validated>>
           ELSE IF output_path = NoPath
           THEN /\ MessageBox("showerror", "Please specify output path")
                /\ UNCHANGED <<process_button, progress, status_label, p_pc,
                               workers, validated>>
           ELSE IF email # <<>> /\ (~Has(email, "@") \/ ~Has(email, "."))
           THEN /\ MessageBox("showerror", "Please enter a valid email address")
                /\ UNCHANGED <<process_button, progress, status_label, p_pc,
                               workers, validated>>
           ELSE /\ process_button' = "disabled"
                /\ progress' = TRUE
                /\ status_label' = "Processing PDF..."
                /\ validated' = [pdf_path |-> pdf_path,
                                 output_path |-> output_path,
                                 email |-> email]
                /\ p_pc' = "start"
                /\ workers' = workers + 1
                /\ UNCHANGED dialogs
    /\ UNCHANGED <<config_present, ui_queue, pdf_path, output_path,
                   email_recipient, summarize_pdf, summary_text, email_sent>>
    /\ UNCHANGED <<redactVars, emailVars>>
    /\ UNCHANGED OutsideSingle

\* process_pdf: the handler of the process button, which can be pressed
\* while it is enabled.
process_pdf ==
    /\ process_button = "normal"
    /\ clicks < MaxClicks
    /\ clicks' = clicks + 1
    /\ LET email == Strip(email_recipient)
       IN  IF pdf_path = NoPath
           THEN /\ MessageBox("showerror", "Please select a PDF file")
                /\ UNCHANGED <<process_button, progress, status_label, p_pc,
                               workers, validated>>
           ELSE IF output_path = NoPath
           THEN /\ MessageBox("showerror", "Please specify output path")
                /\ UNCHANGED <<process_button, progress, status_label, p_pc,
                               workers, validated>>
           ELSE IF email # <<>> /\ (~Has(email, "@") \/ ~Has(email, "."))
           THEN /\ MessageBox("showerror", "Please enter a valid email address")
                /\ UNCHANGED <<process_button, progress, status_label, p_pc,
                               workers, validated>>
           ELSE /\ process_button' = "disabled"
                /\ progress' = TRUE
                /\ status_label' = "Processing PDF..."
                /\ validated' = [pdf_path |-> pdf_path,
                                 output_path |-> output_path,
                                 email |-> email]
                /\ p_pc' = "start"
                /\ workers' = workers + 1
                /\ UNCHANGED dialogs
    /\ UNCHANGED <<config_present, ui_queue, pdf_path, output_path,
                   email_recipient, summarize_pdf, summary_text, email_sent>>
    /\ UNCHANGED <<redactVars, emailVars>>
    /\ UNCHANGED OutsideSingle

\* What a worker step leaves alone of the window.
WorkerFrame ==
    /\ UNCHANGED <<config_present, dialogs, workers, clicks>>
    /\ UNCHANGED <<pdf_path, output_path, email_recipient, summarize_pdf,
                   validated, process_button, progress, status_label>>
    /\ UNCHANGED OutsideSingle

\* The worker up to remove_watermarks: the summary, when it is requested.
SingleSummarize ==
    /\ p_pc = "start"
    /\ summary_text' = IF summarize_pdf THEN summarize_content(pdf_path)
                       ELSE <<>>
    /\ email_sent' = FALSE
    /\ p_pc' = "redact"
    /\ UNCHANGED <<ui_queue, redactVars, emailVars>>
    /\ WorkerFrame

\* The worker calls remove_watermarks(self.pdf_path.get(), watermark_list).
SingleRemoveWatermarks ==
    /\ p_pc = "redact"
    /\ p_pc' = "redacting"
    /\ src_path' = pdf_path
    /\ r_pc' = "open"
    /\ d_pages' = <<>>
    /\ page_num' = 0
    /\ modified' = FALSE
    /\ direct_raised' = FALSE
    /\ via_images' = FALSE
    /\ images' = <<>>
    /\ processed_images' = <<>>
    /\ caught' = {}
    /\ written' = {}
    /\ clean_path' = NoPath
    /\ UNCHANGED <<watermark_list, disk, ui_queue, summary_text, email_sent,
                   emailVars>>
    /\ WorkerFrame

\* remove_watermarks raised: the handler of the worker posts the error
\* completion.
SingleRemovalRaised ==
    /\ p_pc = "redacting"
    /\ r_pc = "raised"
    /\ Post(<<Complete(FALSE, <<ErrorText("Error removing watermarks")>>)>>)
    /\ p_pc' = "done"
    /\ UNCHANGED <<summary_text, email_sent, redactVars, emailVars>>
    /\ WorkerFrame

\* A mutation of SingleCopy: when copy2 raises the worker goes on to the
\* email step.
SingleCopy_goes_on ==
    /\ p_pc = "redacting"
    /\ r_pc = "returned"
    /\ \/ /\ clean_path # output_path
          /\ disk' = [q \in DOMAIN disk \cup {output_path} |->
                        IF q = output_path THEN disk[clean_path] ELSE disk[q]]
          /\ p_pc' = "email"
          /\ UNCHANGED ui_queue
       \/ /\ p_pc' = "email"
          /\ UNCHANGED <<ui_queue, disk>>
    /\ UNCHANGED <<src_path, watermark_list, r_pc, d_pages, page_num, modified,
                   direct_raised, via_images, written, clean_path,
                   imageVars>>
    /\ UNCHANGED <<summary_text, email_sent, emailVars>>
    /\ WorkerFrame

\* shutil.copy2(clean_pdf_path, self.output_path.get()): the file is copied,
\* or copy2 raises, as it does when both are the same file, and the worker
\* posts the error completion.
SingleCopy ==
    /\ p_pc = "redacting"
    /\ r_pc = "returned"
    /\ \/ /\ clean_path # output_path
          /\ disk' = [q \in DOMAIN disk \cup {output_path} |->
                        IF q = output_path THEN disk[clean_path] ELSE disk[q]]
          /\ p_pc' = "email"
          /\ UNCHANGED ui_queue
       \/ /\ Post(<<Complete(FALSE, <<ErrorText("copy2")>>)>>)
          /\ p_pc' = "done"
          /\ UNCHANGED disk
    /\ UNCHANGED <<src_path, watermark_list, r_pc, d_pages, page_num, modified,
                   direct_raised, via_images, written, clean_path,
                   imageVars>>
    /\ UNCHANGED <<summary_text, email_sent, emailVars>>
    /\ WorkerFrame

\* A mutation of SingleSendEmail: the constructor of EmailSender is called
\* outside the try block of _send_email, and its exception reaches the
\* handler of the worker.
SingleSendEmail_unguarded ==
    /\ p_pc = "email"
    /\ IF Strip(email_recipient) = <<>>
       THEN /\ p_pc' = "message"
            /\ UNCHANGED <<emailVars, ui_queue>>
       ELSE IF ~config_present
       THEN /\ Post(<<Complete(FALSE, <<ErrorText("config")>>)>>)
            /\ p_pc' = "done"
            /\ UNCHANGED emailVars
       ELSE /\ e_args' = [recipient_email |-> Strip(email_recipient),
                          pdf_path |-> output_path,
                          summary_text |-> summary_text,
                          original_filename |-> basename(pdf_path)]
            /\ e_pc' = "called"
            /\ e_msg' = NoMessage
            /\ e_result' = FALSE
            /\ p_pc' = "sending"
            /\ UNCHANGED <<connections, outbox, ui_queue>>
    /\ UNCHANGED <<summary_text, email_sent, redactVars>>
    /\ WorkerFrame

\* The email step: skipped without a recipient; _send_email returns False
\* when EmailSender() raises for want of the configuration, and else calls
\* send_pdf_summary_email on the copied file.
SingleSendEmail ==
    /\ p_pc = "email"
    /\ IF Strip(email_recipient) = <<>> \/ ~config_present
       THEN /\ p_pc' = "message"
            /\ UNCHANGED emailVars
       ELSE /\ e_args' = [recipient_email |-> Strip(email_recipient),
                          pdf_path |-> output_path,
                          summary_text |-> summary_text,
                          original_filename |-> basename(pdf_path)]
            /\ e_pc' = "called"
            /\ e_msg' = NoMessage
            /\ e_result' = FALSE
            /\ p_pc' = "sending"
            /\ UNCHANGED <<connections, outbox>>
    /\ UNCHANGED <<ui_queue, summary_text, email_sent, redactVars>>
    /\ WorkerFrame

\* send_pdf_summary_email returned: email_sent is what it returned.
SingleEmailReturned ==
    /\ p_pc = "sending"
    /\ e_pc = "returned"
    /\ email_sent' = e_result
    /\ p_pc' = "message"
    /\ UNCHANGED <<ui_queue, summary_text, redactVars, emailVars>>
    /\ WorkerFrame

\* success_msg of the worker.
success_msg ==
    <<Saved(output_path)>>
    \o (IF summarize_pdf /\ summary_text # <<>> THEN <<SummaryShown>>
        ELSE IF summarize_pdf THEN <<SummaryFailed>>
        ELSE <<>>)
    \o (IF email_sent THEN <<EmailSent(email_recipient)>> ELSE <<>>)

\* The worker posts the success completion.
SingleComplete ==
    /\ p_pc = "message"
    /\ Post(<<Complete(TRUE, success_msg)>>)
    /\ p_pc' = "done"
    /\ UNCHANGED <<summary_text, email_sent, redactVars, emailVars>>
    /\ WorkerFrame

\* _process_complete(success, message), run by the interface thread.
process_complete ==
    /\ ui_queue # <<>>
    /\ Head(ui_queue).do = "_process_complete"
    /\ ui_queue' = Tail(ui_queue)
    /\ progress' = FALSE
    /\ process_button' = "normal"
    /\ LET item == Head(ui_queue).item
       IN  IF item.kind = "success"
           THEN /\ status_label' = "Processing completed successfully!"
                /\ dialogs' = Append(dialogs, [kind |-> "showinfo",
                                               text |-> item.text])
           ELSE /\ status_label' = "Processing failed"
                /\ dialogs' = Append(dialogs, [kind |-> "showerror",
                                               text |-> item.text])
    /\ UNCHANGED <<config_present, workers, clicks, pdf_path, output_path,
                   email_recipient, summarize_pdf, validated, p_pc,
                   summary_text, email_sent>>
    /\ UNCHANGED <<redactVars, emailVars>>
    /\ UNCHANGED OutsideSingle

NextSingle ==
    \/ process_pdf
    \/ SingleSummarize
    \/ SingleRemoveWatermarks
    \/ DirectOpen
    \/ DirectPage
    \/ DirectSave
    \/ ViaImages
    \/ SingleRemovalRaised
    \/ SingleCopy
    \/ SingleSendEmail
    \/ send_pdf_summary_email
    \/ EmailAttach
    \/ EmailConnect
    \/ EmailStartTls
    \/ EmailLogin
    \/ EmailSendmail
    \/ EmailQuit
    \/ SingleEmailReturned
    \/ SingleComplete
    \/ process_complete

\* What the recipient field can hold: nothing, blanks, addresses with and
\* without blanks around them, and texts without "@", without "." and
\* without both.
RecipientFields ==
    {<<>>,
     <<" ">>,
     <<"a", "@", "b", ".", "c">>,
     <<" ", "a", "@", "b", ".", "c", " ">>,
     <<"a", "b", ".", "c">>,
     <<"a", "@", "b", "c">>,
     <<"a", "b", "c">>}

\* The report the input field names.
ReportFile == [dir |-> "docs", name |-> <<"r", ".", "p", "d", "f">>]

\* The hardcoded watermark list.
HardcodedWatermarks == <<<<"W", "M">>, <<"x">>>>

\* The reports: with a watermark, without one, and without text.
Reports ==
    {Vector(6, <<<<"W", "M", "a", "b", "a">>, <<"a", "b">>>>),
     Vector(6, <<<<"a", "b">>>>),
     Vector(6, <<<<>>>>)}

\* The fields of the single-document tab, the report and the services.
InitFields ==
    /\ pdf_path \in {NoPath, ReportFile}
    /\ output_path \in {NoPath, CleanFile}
    /\ email_recipient \in RecipientFields
    /\ summarize_pdf \in BOOLEAN
    /\ validated = NoFields
    /\ process_button = "normal"
    /\ progress = FALSE
    /\ status_label = ""
    /\ p_pc = "idle"
    /\ summary_text = <<>>
    /\ email_sent = FALSE
    /\ config_present \in BOOLEAN
    /\ ui_queue = <<>>
    /\ dialogs = <<>>
    /\ workers = 0
    /\ clicks = 0

InitSingle ==
    /\ InitFields
    /\ \E doc \in Reports : disk = [q \in {ReportFile} |-> doc]
    /\ src_path = NoPath
    /\ watermark_list = HardcodedWatermarks
    /\ InitCallRedact
    /\ EmailIdle
    /\ BatchIdle
    /\ deepseek_available = TRUE
    /\ gemini_available = FALSE
    /\ qwen_available = FALSE
    /\ \E a \in {APIError, Answer(<<"mai", "ru", "nl">>)} :
          api = [p \in ProviderSet |-> a]
    /\ pdf_text = <<>>
    /\ ChainIdle
    /\ WeChatIdle
    /\ CombineIdle

SpecSingle == InitSingle /\ [][NextSingle]_vars

\* The window with both buttons: the single-document processing and the
\* handler of the batch button, whose worker is the subject of SpecBatch.
NextWindow ==
    \/ NextSingle
    \/ analyze_batch

InitWindow ==
    /\ InitFields
    /\ \E doc \in Reports : disk = [q \in {ReportFile} |-> doc]
    /\ src_path = NoPath
    /\ watermark_list = HardcodedWatermarks
    /\ InitCallRedact
    /\ EmailIdle
    /\ folder_path \in {"", "gone", "reports"}
    /\ folder = <<>>
    /\ batch_button = "normal"
    /\ batch_progress = FALSE
    /\ results_text = <<>>
    /\ b_pc = "idle"
    /\ pdf_files = <<>>
    /\ file_index = 0
    /\ all_summaries = <<>>
    /\ SummarizersIdle

SpecWindow == InitWindow /\ [][NextWindow]_vars

-----------------------------------------------------------------------------
(* Claims about the handlers and the single-document processing.           *)

\* The texts of the error boxes of process_pdf and of analyze_batch.
SingleErrors ==
    {"Please select a PDF file", "Please specify output path",
     "Please enter a valid email address"}

BatchErrors ==
    {"Please select a folder containing PDFs.",
     "Selected folder does not exist."}

\* The error boxes shown so far with a text of the set.
ErrorBoxes(texts) ==
    {k \in 1..Len(dialogs) :
        dialogs[k].kind = "showerror" /\ dialogs[k].text \in texts}

\* The text lacks "@" or ".".
NoAddress(s) == ~Has(s, "@") \/ ~Has(s, ".")

\* The fields of the single-document tab that process_pdf has to reject,
\* with the recipient taken without the blanks around it.
InvalidFields ==
    \/ pdf_path = NoPath
    \/ output_path = NoPath
    \/ Strip(email_recipient) # <<>> /\ NoAddress(Strip(email_recipient))

InvalidFolder == folder_path = "" \/ ~FolderExists(folder_path)

\* No single-document worker was started and the process button is enabled.
NotProcessing ==
    /\ p_pc = "idle"
    /\ process_button = "normal"
    /\ progress = FALSE

\* No batch worker was started and the batch button is enabled.
NotAnalyzing ==
    /\ b_pc = "idle"
    /\ batch_button = "normal"
    /\ batch_progress = FALSE

\* C17 as stated: process_pdf starts no worker and leaves its button enabled
\* for a recipient that is not empty and lacks "@" or ".".
C17_NonEmptyRecipientRejected ==
    email_recipient # <<>> /\ NoAddress(email_recipient) => NotProcessing

\* C17, amended: with an empty input path, an empty output path or a
\* recipient that is not blank and lacks "@" or ".", process_pdf starts no
\* worker and leaves its button enabled; with an empty or non-existent
\* folder so does analyze_batch; every rejected press shows an error box;
\* fields that are not invalid are never rejected, and a blank recipient
\* only leaves out the email step.
C17_InvalidInputStartsNoWorker ==
    /\ InvalidFields => NotProcessing
    /\ InvalidFolder => NotAnalyzing
    /\ NotProcessing /\ NotAnalyzing =>
          /\ workers = 0
          /\ Len(dialogs) = clicks
          /\ ErrorBoxes(SingleErrors \cup BatchErrors) = 1..clicks
    /\ ~InvalidFields => ErrorBoxes(SingleErrors) = {}
    /\ ~InvalidFolder => ErrorBoxes(BatchErrors) = {}
    /\ Strip(email_recipient) = <<>> =>
          /\ e_pc = "idle"
          /\ connections = 0
          /\ outbox = <<>>

\* Both buttons were pressed with invalid input: two error boxes, no worker.
C17_Witness ==
    /\ InvalidFields
    /\ InvalidFolder
    /\ clicks = 2
    /\ ErrorBoxes(SingleErrors) # {}
    /\ ErrorBoxes(BatchErrors) # {}
    /\ workers = 0
    /\ NotProcessing
    /\ NotAnalyzing

\* The worker is past the copy to the output path.
PastCopy == p_pc \in {"email", "sending", "message"}

\* C18: the worker gets past the copy only when remove_watermarks returned
\* and the cleaned document is at the output path; from then on the file
\* stays as it is and the worker can only end by posting the success
\* completion, whatever the summary and the email step came to; the
\* summarization never ends the worker.
C18_SuccessOnceCopied ==
    [][/\ p_pc = "start" => p_pc' \in {"start", "redact"}
       /\ p_pc = "redacting" /\ p_pc' = "email" =>
             /\ r_pc = "returned"
             /\ Exists(output_path)'
             /\ disk'[output_path] = disk[clean_path]
       /\ PastCopy =>
             /\ disk' = disk
             /\ \/ PastCopy'
                \/ /\ p_pc' = "done"
                   /\ ui_queue' =
                         Append(ui_queue, Complete(TRUE, success_msg))]_vars

\* The provider failed and the email was not sent; the success box is shown
\* and the cleaned document is at the output path.
C18_Witness ==
    /\ p_pc = "done"
    /\ summarize_pdf
    /\ Strip(extract_text(disk[pdf_path])) # <<>>
    /\ summary_text = <<>>
    /\ Strip(email_recipient) # <<>>
    /\ e_pc = "returned"
    /\ ~email_sent
    /\ dialogs # <<>>
    /\ dialogs[Len(dialogs)].kind = "showinfo"
    /\ Exists(output_path)
    /\ disk[output_path] = disk[clean_path]

\* The fixed texts of the completion message that are about the email.
EmailTexts == {"Email sent successfully to:"}

\* The places of the message that are about the email.
AboutEmail(message) ==
    {k \in 1..Len(message) : message[k].text \in EmailTexts}

SaysSent(message) ==
    \E k \in 1..Len(message) : message[k].text = "Email sent successfully to:"

\* The success boxes shown so far.
SuccessBoxes == {k \in 1..Len(dialogs) : dialogs[k].kind = "showinfo"}

\* C19: when a recipient was given, a success box that does not say the
\* email was sent says that the email failed: it has a part about the email.
C19_SaysEmailFailed ==
    Strip(email_recipient) # <<>> =>
       \A k \in SuccessBoxes :
          ~SaysSent(dialogs[k].text) => AboutEmail(dialogs[k].text) # {}

\* What holds instead: the success completion the worker posts says that the
\* email was sent exactly when send_pdf_summary_email returned True in the
\* run, and it says nothing else about the email.
C19_SaysSentIffSent ==
    [][p_pc = "message" /\ p_pc' = "done" =>
          LET message == ui_queue'[Len(ui_queue')].item.text
          IN  /\ SaysSent(message) <=>
                    /\ Strip(email_recipient) # <<>>
                    /\ e_pc = "returned"
                    /\ e_result = TRUE
              /\ ~SaysSent(message) => AboutEmail(message) = {}]_vars

\* C20: for a text that is not empty generate_wechat_summary returns a
\* string that is not empty, and the fallback summary when no available
\* provider answers.
C20_NeverEmpty ==
    w_pc = "returned" /\ text_is_str /\ pdf_text # <<>> =>
       /\ w_summary # <<>>
       /\ Usable = {} => w_summary = fallback_summary(pdf_text, filename)

\* What holds instead: the returned string is what wechat_summary gives; it
\* is the fallback summary, which is never empty, exactly when no available
\* provider answers, and an answer without text is returned as "".
C20_FallbackWhenNoneAnswers ==
    w_pc = "returned" /\ text_is_str =>
       /\ w_summary = wechat_summary(pdf_text, filename)
       /\ w_path = "fallback" <=> Usable = {}
       /\ w_path = "fallback" =>
             /\ w_summary = fallback_summary(pdf_text, filename)
             /\ w_summary # <<>>
       /\ w_path = "formatted" =>
             w_summary = format_wechat_output(api[FirstUsable].content,
                                              filename)

-----------------------------------------------------------------------------
(* Claims about the missing configuration.                                 *)

\* The single-document operation needs the summarizer: the summary is
\* requested and the document has text that is not blank.
NeedsSummarizer ==
    /\ summarize_pdf
    /\ Exists(pdf_path)
    /\ Strip(extract_text(disk[pdf_path])) # <<>>

\* C21: without the configuration an operation that needs the summarizer
\* does not go on without the summary: the single-document worker does not
\* get to the redaction and no success box is shown.
C21_ConfigErrorSurfaced ==
    ~config_present /\ NeedsSummarizer =>
       /\ p_pc \in {"idle", "start", "done"}
       /\ SuccessBoxes = {}

\* What holds instead for the single-document operation: without the
\* configuration the summary is "", the worker goes on as after a provider
\* failure, and the message it posts is the success message with the line
\* about the failed summary.
C21_SingleGoesOnWithoutSummary ==
    [][~config_present /\ NeedsSummarizer =>
          /\ p_pc = "start" => p_pc' = "redact" /\ summary_text' = <<>>
          /\ p_pc = "message" /\ p_pc' = "done" =>
                /\ ui_queue'[Len(ui_queue')].item.kind = "success"
                /\ ui_queue'[Len(ui_queue')].item.text[2] = SummaryFailed]_vars

\* The texts of the error boxes shown or posted by a batch worker.
BatchErrorsShown ==
    {dialogs[k].text : k \in {n \in 1..Len(dialogs) :
                                 dialogs[n].kind = "showerror"}}
    \cup {ui_queue[k].item.text : k \in {n \in 1..Len(ui_queue) :
                                           ui_queue[n].do = "showerror"}}

\* What holds for the batch analysis: without the configuration a worker
\* ends without a line in the results box; when it found PDF files it ends
\* with an error box, which is the one of the missing configuration unless
\* the listing failed; no summarizer is constructed when the folder has no
\* PDF file.
C21_BatchShowsConfigError ==
    ~config_present /\ b_pc = "done" =>
       /\ Emitted = <<>>
       /\ FolderPdfs # <<>> =>
             /\ BatchErrorsShown # {}
             /\ BatchErrorsShown \subseteq
                   {ConfigMissing, "batch analysis failed"}
             /\ pdf_files # <<>> => ConfigMissing \in BatchErrorsShown
       /\ FolderPdfs = <<>> => ConfigMissing \notin BatchErrorsShown

-----------------------------------------------------------------------------
(* The image path in detail: _remove_watermarks_via_images renders every   *)
(* page to a picture, hands each picture to _remove_watermarks_from_image  *)
(* and saves the pictures as a document.  ViaImages above is the three     *)
(* steps below taken as one, without the content of the pictures.  A       *)
(* picture is its size, the bounding boxes cv2.findContours gives for it   *)
(* and the rectangles filled with white.                                   *)

\* `x < img.shape[1] * 0.4`, in tenths of the width.
LeftTenths == 4

\* `h < 60 and h > 10`
RegionMinHeight == 10

RegionMaxHeight == 60

\* `w > 50 and w < 400`
RegionMinWidth == 50

RegionMaxWidth == 400

\* `roi.shape[0] < 20 and roi.shape[1] < 200`
RoiMaxHeight == 20

RoiMaxWidth == 200

\* The filled rectangle extends the bounding box by this much on each side.
FillMargin == 5

Max(a, b) == IF a >= b THEN a ELSE b

Picture(width, height, contours) ==
    [width |-> width, height |-> height, contours |-> contours,
     filled |-> <<>>]

Box(x, y, w, h) == [x |-> x, y |-> y, w |-> w, h |-> h]

\* The test of a bounding box in _remove_watermarks_from_image.
MightBeWatermark(img, box) ==
    /\ box.x * 10 < img.width * LeftTenths
    /\ box.h < RegionMaxHeight
    /\ box.h > RegionMinHeight
    /\ box.w > RegionMinWidth
    /\ box.w < RegionMaxWidth

\* roi = img[y:y+h, x:x+w]: the shape of the slice.
roi(img, box) ==
    [rows |-> Max(0, Min({box.y + box.h, img.height})
                     - Min({box.y, img.height})),
     cols |-> Max(0, Min({box.x + box.w, img.width})
                     - Min({box.x, img.width}))]

\* _is_watermark_region_multi(roi, watermark_list): the list is not used.
is_watermark_region_multi(region, list) ==
    region.rows < RoiMaxHeight /\ region.cols < RoiMaxWidth

\* The rectangle cv2.rectangle fills with white for a bounding box.
FillOf(img, box) ==
    [x1 |-> Max(0, box.x - FillMargin),
     y1 |-> Max(0, box.y - FillMargin),
     x2 |-> Min({img.width, box.x + box.w + FillMargin}),
     y2 |-> Min({img.height, box.y + box.h + FillMargin})]

\* The loop of _remove_watermarks_from_image over the first n contours.
RECURSIVE PaintFirst(_, _, _)
PaintFirst(img, list, n) ==
    IF n = 0 THEN img
    ELSE LET before == PaintFirst(img, list, n - 1)
             box == img.contours[n]
         IN  IF /\ MightBeWatermark(img, box)
                /\ is_watermark_region_multi(roi(img, box), list)
             THEN [before EXCEPT !.filled = Append(@, FillOf(img, box))]
             ELSE before

\* What _remove_watermarks_from_image(img, list) returns: the picture after
\* the whole loop, or, when a call raises, the picture as it is by then,
\* from the handler of the method.
from_image_results(img, list) ==
    {[img |-> PaintFirst(img, list, Len(img.contours)), caught |-> FALSE]}
    \cup {[img |-> PaintFirst(img, list, n), caught |-> TRUE] :
             n \in 0..Max(0, Len(img.contours) - 1)}

\* The document Image.save writes from the pictures.
Pictures(doc, list) == [kind |-> "raster", width |-> doc.width, pages |-> list]

\* The size of the picture of an A4 page at dpi=300.
PageWidth == 2480

PageHeight == 3508

\* Bounding boxes at the edges of every test: the left side, the height and
\* the width.
EdgeBoxes ==
    LET left == (PageWidth * LeftTenths) \div 10
        half == PageWidth \div 2
    IN  {Box(x, 100, w, h) :
            x \in {left - 1, left, half - 1, half},
            w \in {RegionMinWidth, RegionMinWidth + 1, RoiMaxWidth - 1,
                   RoiMaxWidth, RegionMaxWidth - 1, RegionMaxWidth},
            h \in {RegionMinHeight, RegionMinHeight + 1, RoiMaxHeight - 1,
                   RoiMaxHeight, RegionMaxHeight - 1, RegionMaxHeight}}

\* Pictures of the pages of a document with several pages: without a
\* contour, with a small box at the left, with a small and a tall box, and
\* with a box at the corner of the page.
PicturePool ==
    {Picture(PageWidth, PageHeight, <<>>),
     Picture(PageWidth, PageHeight, <<Box(100, 100, 100, 15)>>),
     Picture(PageWidth, PageHeight,
             <<Box(100, 100, 100, 15), Box(100, 300, 100, 30)>>),
     Picture(PageWidth, PageHeight,
             <<Box(0, 3490, 180, 18), Box(2, 2, 60, 12)>>)}

\* What convert_from_path can give for a document of n pages.
Renderings(n) ==
    IF n = 1
    THEN {<<Picture(PageWidth, PageHeight, <<box>>)>> : box \in EdgeBoxes}
         \cup {<<img>> : img \in PicturePool}
    ELSE [1..n -> PicturePool]

\* convert_from_path(pdf_path, dpi=300): one picture per page, or an error.
ImagesConvert ==
    /\ r_pc = "images"
    /\ via_images' = TRUE
    /\ \/ /\ Exists(src_path)
          /\ images' \in Renderings(Len(disk[src_path].pages))
          /\ r_pc' = "page"
       \/ /\ r_pc' = "raised"
          /\ UNCHANGED images
    /\ UNCHANGED <<src_path, watermark_list, disk, d_pages, page_num, modified,
                   direct_raised, written, clean_path, processed_images,
                   caught>>
    /\ UNCHANGED OutsideRedact

\* One round of the loop over the pictures: an error of the conversions of
\* the picture leaves the image path as an error, an error inside
\* _remove_watermarks_from_image does not.
ImagePage ==
    /\ r_pc = "page"
    /\ Len(processed_images) < Len(images)
    /\ LET i == Len(processed_images) + 1
       IN  \/ \E out \in from_image_results(images[i], watermark_list) :
                 /\ processed_images' = Append(processed_images, out.img)
                 /\ caught' = IF out.caught THEN caught \cup {i} ELSE caught
                 /\ UNCHANGED r_pc
           \/ /\ r_pc' = "raised"
              /\ UNCHANGED <<processed_images, caught>>
    /\ UNCHANGED <<src_path, watermark_list, disk, d_pages, page_num, modified,
                   direct_raised, via_images, written, clean_path, images>>
    /\ UNCHANGED OutsideRedact

\* processed_images[0].save(output_path, ...) and `return output_path`; an
\* empty list and an error of save leave the image path as an error.
ImagesSave ==
    /\ r_pc = "page"
    /\ Len(processed_images) = Len(images)
    /\ \/ /\ processed_images # <<>>
          /\ Write(OutputPath(src_path),
                   Pictures(disk[src_path], processed_images))
          /\ clean_path' = OutputPath(src_path)
          /\ r_pc' = "returned"
       \/ /\ r_pc' = "raised"
          /\ UNCHANGED <<disk, written, clean_path>>
    /\ UNCHANGED <<src_path, watermark_list, d_pages, page_num, modified,
                   direct_raised, via_images, imageVars>>
    /\ UNCHANGED OutsideRedact

NextImages ==
    \/ remove_watermarks
    \/ DirectOpen
    \/ DirectPage
    \/ DirectSave
    \/ ImagesConvert
    \/ ImagePage
    \/ ImagesSave

\* The documents given to the image path: without a page, with pages that
\* have no watermark, and with one that has.
ImageDocuments ==
    {Vector(6, <<>>), Vector(6, <<<<"W", "M", "a">>>>)}
    \cup {Vector(6, [n \in 1..k |-> <<"a", "b">>]) : k \in 1..MaxPages}

InitImages ==
    /\ src_path = ReportFile
    /\ watermark_list = <<<<"W", "M">>>>
    /\ \E doc \in ImageDocuments : disk = [q \in {src_path} |-> doc]
    /\ InitCallRedact
    /\ SummarizersIdle
    /\ DesktopIdle /\ BatchIdle /\ EmailIdle /\ SingleIdle

SpecImages == InitImages /\ [][NextImages]_vars

-----------------------------------------------------------------------------
(* Claims about the image path.                                            *)

\* C22: an error raised while the image path processes a document, the
\* processing of the picture of a single page included, makes
\* remove_watermarks fail: it raises and returns no output path.
C22_ImageErrorsPropagate ==
    caught # {} =>
       /\ r_pc \in {"page", "raised"}
       /\ clean_path = NoPath

\* What holds instead: an error of the rendering, of the conversions of a
\* picture or of the saving ends remove_watermarks as an error, without an
\* output path and without a second attempt, while an error inside
\* _remove_watermarks_from_image is caught there: the picture goes into the
\* document as it was when the error came, and remove_watermarks returns
\* the path of that document.
C22_OnlyOuterErrorsPropagate ==
    [][/\ r_pc = "raised" => r_pc' = "raised" /\ clean_path' = NoPath
       /\ r_pc = "images" => ~via_images
       /\ r_pc = "page" /\ r_pc' = "page" =>
             LET i == Len(processed_images')
             IN  /\ i = Len(processed_images) + 1
                 /\ \E n \in 0..Len(images[i].contours) :
                       /\ processed_images'[i] =
                             PaintFirst(images[i], watermark_list, n)
                       /\ i \notin caught' => n = Len(images[i].contours)
       /\ r_pc = "page" /\ r_pc' = "returned" =>
             /\ Len(processed_images) = Len(images)
             /\ clean_path' = OutputPath(src_path)
             /\ disk'[clean_path'].pages = processed_images]_vars

\* The boxes of a picture that were filled, as the fills they give.
FilledBoxes(k) ==
    {i \in 1..Len(images[k].contours) :
        \E j \in 1..Len(processed_images[k].filled) :
           processed_images[k].filled[j] =
              FillOf(images[k], images[k].contours[i])}

\* C23: in a picture that was processed without an error, a bounding box
\* is filled with white exactly when it starts in the left half of the
\* page, its height is within 10 to 60 and its width within 50 to 400.
C23_BoundedLeftRegionsPainted ==
    \A k \in 1..Len(processed_images) :
       k \notin caught =>
          \A i \in 1..Len(images[k].contours) :
             LET box == images[k].contours[i]
             IN  i \in FilledBoxes(k) <=>
                    /\ 2 * box.x < images[k].width
                    /\ box.h >= 10 /\ box.h <= 60
                    /\ box.w >= 50 /\ box.w <= 400

\* What holds instead: a box is filled exactly when it starts in the left
\* four tenths of the page, its height is above 10 and below 20 and its
\* width is above 50 and below 200; the fills are in the order of the
\* contours, each the box with 5 more on every side, within the page.
C23_SmallLeftRegionsPainted ==
    \A k \in 1..Len(processed_images) :
       k \notin caught =>
          LET img == images[k]
              small(box) == /\ 10 * box.x < 4 * img.width
                            /\ box.h > 10 /\ box.h < 20
                            /\ box.w > 50 /\ box.w < 200
              hits == SelectSeq(img.contours, small)
          IN  /\ Len(processed_images[k].filled) = Len(hits)
              /\ \A j \in 1..Len(hits) :
                    processed_images[k].filled[j] =
                       [x1 |-> Max(0, hits[j].x - 5),
                        y1 |-> Max(0, hits[j].y - 5),
                        x2 |-> Min({img.width, hits[j].x + hits[j].w + 5}),
                        y2 |-> Min({img.height, hits[j].y + hits[j].h + 5})]

-----------------------------------------------------------------------------
(* The window with both tabs in use: the single-document worker and the    *)
(* batch worker, each started by its own button.                           *)

NextBoth ==
    \/ NextSingle
    \/ NextBatch

\* The report of the single-document tab is a file of the batch folder.
SharedReport == [dir |-> "reports", name |-> <<"r", ".", "p", "d", "f">>]

\* The window with the report on the disk: nothing was pressed.
InitTabs ==
    /\ summarize_pdf = TRUE
    /\ validated = NoFields
    /\ process_button = "normal"
    /\ progress = FALSE
    /\ status_label = ""
    /\ p_pc = "idle"
    /\ summary_text = <<>>
    /\ email_sent = FALSE
    /\ config_present = TRUE
    /\ ui_queue = <<>>
    /\ dialogs = <<>>
    /\ workers = 0
    /\ clicks = 0
    /\ disk = [q \in {SharedReport} |-> Vector(6, <<<<"W", "M", "a">>>>)]
    /\ src_path = NoPath
    /\ watermark_list = HardcodedWatermarks
    /\ InitCallRedact
    /\ EmailIdle
    /\ batch_button = "normal"
    /\ batch_progress = FALSE
    /\ results_text = <<>>
    /\ b_pc = "idle"
    /\ pdf_files = <<>>
    /\ file_index = 0
    /\ all_summaries = <<>>
    /\ deepseek_available = TRUE
    /\ gemini_available = FALSE
    /\ qwen_available = FALSE
    /\ api = [p \in ProviderSet |-> BatchAnswer]
    /\ pdf_text = <<>>
    /\ ChainIdle
    /\ WeChatIdle
    /\ CombineIdle

\* Both tabs are filled in; the folder holds the report, or no PDF file.
InitBoth ==
    /\ InitTabs
    /\ pdf_path = SharedReport
    /\ output_path = CleanFile
    /\ email_recipient \in {<<>>, <<"a", "@", "b", ".", "c">>}
    /\ folder_path = "reports"
    /\ folder \in {<<Entry(basename(SharedReport), TRUE, <<"W", "M", "a">>)>>,
                   <<Entry(<<"n", ".", "t", "x", "t">>, TRUE, <<"x">>)>>}

SpecBoth == InitBoth /\ [][NextBoth]_vars

-----------------------------------------------------------------------------
(* Claims about the workers.                                               *)

\* The single-document worker is running.
SingleRunning == p_pc \notin {"idle", "done"}

\* The batch worker is running.
BatchRunning == b_pc \in {"list", "files"}

\* A completion of the single-document worker waits for the interface
\* thread.
CompletionPending ==
    \E k \in 1..Len(ui_queue) : ui_queue[k].do = "_process_complete"

\* The documents the batch worker reads: the PDF files of the folder.
BatchDocuments ==
    {join(folder_path, FolderPdfs[k].name) : k \in 1..Len(FolderPdfs)}

\* C24: no two workers run at the same time on the same document: while the
\* single-document worker runs, no batch worker runs that reads its
\* document.
C24_OneWorkerPerDocument ==
    ~(SingleRunning /\ BatchRunning /\ pdf_path \in BatchDocuments)

\* What holds instead: each button is disabled from the start of its worker
\* until the interface thread has handled the completion the worker posted,
\* so that no second worker of the same tab is started before; the button of
\* the other tab stays as it is.
C24_ButtonDisabledWhileItsWorkerRuns ==
    /\ process_button = "normal" => ~SingleRunning /\ ~CompletionPending
    /\ batch_button = "normal" => ~BatchRunning
    /\ SingleRunning \/ CompletionPending => process_button = "disabled"
    /\ BatchRunning => batch_button = "disabled"

\* The steps of the single-document worker thread, with the calls it makes.
SingleWorker ==
    \/ SingleSummarize
    \/ SingleRemoveWatermarks
    \/ DirectOpen
    \/ DirectPage
    \/ DirectSave
    \/ ViaImages
    \/ SingleRemovalRaised
    \/ SingleCopy
    \/ SingleSendEmail
    \/ send_pdf_summary_email
    \/ EmailAttach
    \/ EmailConnect
    \/ EmailStartTls
    \/ EmailLogin
    \/ EmailSendmail
    \/ EmailQuit
    \/ SingleEmailReturned
    \/ SingleComplete

\* The steps of the batch worker thread.
BatchWorker ==
    \/ BatchList
    \/ BatchFile
    \/ BatchFinish

\* The interface thread runs the callbacks posted with root.after(0, ...).
InterfaceThread ==
    \/ process_complete
    \/ RunBatchCallback

\* One tab is filled in: the single-document tab, with a recipient or
\* without, or the batch tab, with a folder that holds no PDF file or that
\* holds a PDF file without text and one that cannot be read next to a file
\* that is no PDF.
InitHandBack ==
    /\ InitTabs
    /\ \/ /\ pdf_path = SharedReport
          /\ output_path = CleanFile
          /\ email_recipient \in {<<>>, <<"a", "@", "b", ".", "c">>}
          /\ folder_path = ""
          /\ folder = <<>>
       \/ /\ pdf_path = NoPath
          /\ output_path = NoPath
          /\ email_recipient = <<>>
          /\ folder_path = "reports"
          /\ folder \in {<<Directory[6]>>,
                         <<Directory[2], Directory[6], Directory[5]>>}

\* Every blocking call returns and every thread gets to run: a worker that
\* can take a step takes one, and the event loop of the interface runs the
\* callbacks posted to it.  Nothing makes the user press a button.
SpecHandBack ==
    /\ InitHandBack
    /\ [][NextBoth]_vars
    /\ WF_vars(SingleWorker)
    /\ WF_vars(BatchWorker)
    /\ WF_vars(InterfaceThread)

\* The number of callbacks of a kind that wait in the queue.
Pending(do) ==
    Cardinality({k \in 1..Len(ui_queue) : ui_queue[k].do = do})

\* Nothing runs and nothing waits: the workers have ended, their callbacks
\* were run, both buttons are enabled and both progress bars stand still.
Quiet ==
    /\ ~SingleRunning
    /\ ~BatchRunning
    /\ ui_queue = <<>>
    /\ process_button = "normal"
    /\ batch_button = "normal"
    /\ ~progress
    /\ ~batch_progress

\* C25: the single-document worker posts one completion, success or
\* failure, when it ends and none before; the batch worker ends, on every
\* path, by posting the callbacks that enable the batch button and stop the
\* progress bar, and posts none of them before; the completion enables the
\* process button; and every started worker ends and has its callbacks
\* run, so that in the end nothing runs and both buttons are enabled.
C25_WorkersHandBack ==
    /\ [][/\ SingleRunning /\ ~SingleRunning' =>
                /\ ui_queue' = Append(ui_queue, ui_queue'[Len(ui_queue')])
                /\ ui_queue'[Len(ui_queue')].do = "_process_complete"
                /\ ui_queue'[Len(ui_queue')].item.kind \in
                      {"success", "failure"}
          /\ SingleRunning /\ SingleRunning' =>
                Pending("_process_complete")' <= Pending("_process_complete")
          /\ BatchRunning /\ ~BatchRunning' =>
                /\ Len(ui_queue') >= Len(ui_queue) + 2
                /\ SubSeq(ui_queue', Len(ui_queue') - 1, Len(ui_queue')) =
                      <<Do("enable_batch"), Do("stop_batch_progress")>>
          /\ BatchRunning /\ BatchRunning' =>
                /\ Pending("enable_batch")' <= Pending("enable_batch")
                /\ Pending("stop_batch_progress")' <=
                      Pending("stop_batch_progress")
          /\ Pending("_process_complete")' < Pending("_process_complete") =>
                process_button' = "normal" /\ ~progress'
          /\ Pending("enable_batch")' < Pending("enable_batch") =>
                batch_button' = "normal"
          /\ Pending("stop_batch_progress")' < Pending("stop_batch_progress")
                => ~batch_progress']_vars
    /\ <>[]Quiet

\* A batch worker found no PDF file in a folder that is not empty and
\* returned early; its callbacks were run: the warning was shown, the batch
\* button is enabled and the progress bar stands still.
C25_Witness ==
    /\ b_pc = "done"
    /\ workers = 1
    /\ folder # <<>>
    /\ FolderPdfs = <<>>
    /\ ui_queue = <<>>
    /\ batch_button = "normal"
    /\ ~batch_progress
    /\ \E k \in 1..Len(dialogs) : dialogs[k].kind = "showwarning"

-----------------------------------------------------------------------------
(* Claims about the order of the batch analysis.                           *)

\* The name ends with ".pdf" in some letter case.
HasPdfSuffix(name) ==
    /\ Len(name) >= 4
    /\ Lower(SubSeq(name, Len(name) - 3, Len(name))) = <<".", "p", "d", "f">>

\* The names of the entries of the folder with that suffix, in the order of
\* the listing.
PdfNames ==
    LET entries == SelectSeq(folder, LAMBDA entry : HasPdfSuffix(entry.name))
    IN  [k \in 1..Len(entries) |-> entries[k].name]

\* The files of the progress lines emitted so far, in their order.
Started ==
    LET lines == SelectSeq(Emitted, LAMBDA item : item.kind = "progress")
    IN  [k \in 1..Len(lines) |-> lines[k].file]

\* C26: a batch worker that got to its loop takes the entries with the
\* suffix ".pdf" in any letter case one after the other in the order of the
\* listing, each once and no other entry: the files started so far are the
\* first of them, every file started has had its summary, its notice or its
\* error line before the next one starts, and the worker ends with the
\* completion line after the last of them, whatever files failed.
C26_EachPdfOnceInListingOrder ==
    /\ Len(Started) <= Len(PdfNames)
    /\ Started = SubSeq(PdfNames, 1, Len(Started))
    /\ b_pc = "files" => Len(Started) = file_index - 1
    /\ \A k \in ItemsOfKind("progress") :
          /\ k < Len(Emitted)
          /\ Emitted[k + 1].kind \in {"summary", "notice", "error"}
          /\ Emitted[k + 1].kind = "error" <=>
                \E i \in 1..Len(folder) :
                   /\ folder[i].name = Emitted[k].file
                   /\ ~folder[i].readable
    /\ \A k \in ItemsOfKind("summary") \cup ItemsOfKind("notice")
                   \cup ItemsOfKind("error") :
          k > 1 /\ Emitted[k - 1].kind = "progress"
    /\ b_pc = "done" /\ Started # <<>> =>
          /\ Started = PdfNames
          /\ ItemsOfKind("completed") # {}
          /\ \A k \in ItemsOfKind("completed") :
                Emitted[k].text = Decimal(Len(PdfNames))

\* A folder was analyzed whose listing has a file that is no PDF, then a
\* PDF that cannot be read, then a PDF with text: the error line of the
\* first PDF is followed by the summary of the second.
C26_Witness ==
    /\ b_pc = "done"
    /\ ui_queue = <<>>
    /\ Len(folder) = 3
    /\ ~HasPdfSuffix(folder[1].name)
    /\ HasPdfSuffix(folder[2].name) /\ ~folder[2].readable
    /\ HasPdfSuffix(folder[3].name) /\ Strip(folder[3].text) # <<>>
    /\ [k \in 1..Len(results_text) |-> results_text[k].kind] =
          <<"progress", "error", "progress", "summary", "completed">>

-----------------------------------------------------------------------------
(* Two runs on files of the same name: the single-document worker of this  *)
(* window, and a run of remove_watermarks by another instance of the       *)
(* program, which shares the temporary directory and nothing else.         *)

\* What the direct path saves for a document: every page after the loop
\* over the patterns.
Redacted(doc, list) ==
    Vector(doc.width,
           [n \in 1..Len(doc.pages) |->
               RedactPage(get_text(doc, n), list, doc.width)])

\* The direct path sets `modified` for the document.
HasWatermark(doc, list) ==
    \E n \in 1..Len(doc.pages) : FoundOnPage(get_text(doc, n), list, doc.width)

\* The report of the other instance: the name of ReportFile in another
\* directory.
PeerFile == [dir |-> "more", name |-> basename(ReportFile)]

\* remove_watermarks(PeerFile, watermark_list) in the other instance, by the
\* direct path: the document is saved to the path in the temporary
\* directory.
PeerRun ==
    /\ Exists(PeerFile)
    /\ HasWatermark(disk[PeerFile], HardcodedWatermarks)
    /\ disk' = [q \in DOMAIN disk \cup {OutputPath(PeerFile)} |->
                  IF q = OutputPath(PeerFile)
                  THEN Redacted(disk[PeerFile], HardcodedWatermarks)
                  ELSE disk[q]]
    /\ UNCHANGED <<src_path, watermark_list, r_pc, d_pages, page_num, modified,
                   direct_raised, via_images, written, clean_path, imageVars>>
    /\ UNCHANGED <<desktopVars, emailVars, singleVars>>
    /\ UNCHANGED OutsideSingle

NextRuns ==
    \/ NextSingle
    \/ PeerRun

\* Two reports of the same name and different text, each with a watermark.
InitRuns ==
    /\ pdf_path = ReportFile
    /\ output_path = CleanFile
    /\ email_recipient = <<"a", "@", "b", ".", "c">>
    /\ summarize_pdf = FALSE
    /\ validated = NoFields
    /\ process_button = "normal"
    /\ progress = FALSE
    /\ status_label = ""
    /\ p_pc = "idle"
    /\ summary_text = <<>>
    /\ email_sent = FALSE
    /\ config_present = TRUE
    /\ ui_queue = <<>>
    /\ dialogs = <<>>
    /\ workers = 0
    /\ clicks = 0
    /\ disk = [q \in {ReportFile, PeerFile} |->
                 IF q = ReportFile
                 THEN Vector(6, <<<<"W", "M", "a", "b", "a">>>>)
                 ELSE Vector(6, <<<<"b", "b", "W", "M">>, <<"x", "a">>>>)]
    /\ src_path = NoPath
    /\ watermark_list = HardcodedWatermarks
    /\ InitCallRedact
    /\ EmailIdle
    /\ BatchIdle
    /\ deepseek_available = TRUE
    /\ gemini_available = FALSE
    /\ qwen_available = FALSE
    /\ api = [p \in ProviderSet |-> Answer(<<"mai", "ru", "nl">>)]
    /\ pdf_text = <<>>
    /\ ChainIdle
    /\ WeChatIdle
    /\ CombineIdle

SpecRuns == InitRuns /\ [][NextRuns]_vars

\* C27: the path remove_watermarks writes is the temporary directory with
\* the base name of the source, ".pdf" replaced, so that the two reports of
\* the same name in different directories have the same temporary path; the
\* worker copies to its output path what is at that path when it copies,
\* which is the output of its own run or the output of the other run.
C27_SameNameSameTemporaryPath ==
    /\ basename(PeerFile) = basename(pdf_path)
    /\ PeerFile.dir # pdf_path.dir
    /\ OutputPath(PeerFile) = OutputPath(pdf_path)
    /\ \A q \in written \cup ({clean_path} \ {NoPath}) :
          /\ q.dir = TempDir
          /\ q.name = <<"r", "_", "c", "l", "e", "a", "n", ".", "p", "d", "f">>
    /\ PastCopy =>
          disk[output_path] \in
             {Redacted(disk[pdf_path], watermark_list),
              Raster(disk[pdf_path]),
              Redacted(disk[PeerFile], watermark_list)}

\* The runs overlapped: the other run wrote the temporary path after this
\* run had written it and before the worker copied, and the file at the
\* output path of this run is the cleaned report of the other run.
C27_Witness ==
    /\ PastCopy
    /\ written = {OutputPath(pdf_path)}
    /\ disk[output_path] = Redacted(disk[PeerFile], watermark_list)
    /\ disk[output_path] # Redacted(disk[pdf_path], watermark_list)

-----------------------------------------------------------------------------
(* The fields of the single-document tab while the worker runs.  The       *)
(* entries and the checkbox stay enabled, and the worker reads the Tk      *)
(* variables with get() at each use.                                       *)

\* A second report and a second output path the user can type.
OtherReport == [dir |-> "docs", name |-> <<"s", ".", "p", "d", "f">>]

OtherOutput == [dir |-> "out", name |-> <<"s", ".", "p", "d", "f">>]

\* The user types into the input, the output or the recipient entry: each
\* field is changed once, from the value it has at the start to another.
EditFields ==
    /\ \/ /\ pdf_path = ReportFile
          /\ pdf_path' = OtherReport
          /\ UNCHANGED <<output_path, email_recipient>>
       \/ /\ output_path = CleanFile
          /\ output_path' = OtherOutput
          /\ UNCHANGED <<pdf_path, email_recipient>>
       \/ /\ email_recipient = <<"a", "@", "b", ".", "c">>
          /\ email_recipient' = <<"x", "@", "y", ".", "h", "k">>
          /\ UNCHANGED <<pdf_path, output_path>>
    /\ UNCHANGED <<summarize_pdf, validated, process_button, progress,
                   status_label, p_pc, summary_text, email_sent>>
    /\ UNCHANGED <<desktopVars, redactVars, emailVars>>
    /\ UNCHANGED OutsideSingle

NextEdits == NextSingle \/ EditFields

\* The fields are filled in and both reports are on the disk.
InitEdits ==
    /\ pdf_path = ReportFile
    /\ output_path = CleanFile
    /\ email_recipient = <<"a", "@", "b", ".", "c">>
    /\ summarize_pdf = TRUE
    /\ validated = NoFields
    /\ process_button = "normal"
    /\ progress = FALSE
    /\ status_label = ""
    /\ p_pc = "idle"
    /\ summary_text = <<>>
    /\ email_sent = FALSE
    /\ config_present = TRUE
    /\ ui_queue = <<>>
    /\ dialogs = <<>>
    /\ workers = 0
    /\ clicks = 0
    /\ disk = [q \in {ReportFile, OtherReport} |->
                 IF q = ReportFile
                 THEN Vector(6, <<<<"W", "M", "a", "b", "a">>>>)
                 ELSE Vector(6, <<<<"b", "b", "W", "M">>>>)]
    /\ src_path = NoPath
    /\ watermark_list = HardcodedWatermarks
    /\ InitCallRedact
    /\ EmailIdle
    /\ BatchIdle
    /\ deepseek_available = TRUE
    /\ gemini_available = FALSE
    /\ qwen_available = FALSE
    /\ api = [p \in ProviderSet |-> Answer(<<"mai", "ru", "nl">>)]
    /\ pdf_text = <<>>
    /\ ChainIdle
    /\ WeChatIdle
    /\ CombineIdle

SpecEdits == InitEdits /\ [][NextEdits]_vars

\* C28: what the worker summarizes, redacts, writes, attaches and mails to
\* is what the fields held when process_pdf validated them, whatever the
\* user types while the worker runs.
C28_FieldsAsValidated ==
    /\ p_pc \in {"redact", "redacting"} /\ summary_text # <<>> =>
          summary_text = summarize_content(validated.pdf_path)
    /\ p_pc = "redacting" => src_path = validated.pdf_path
    /\ PastCopy =>
          /\ Exists(validated.output_path)
          /\ disk[validated.output_path] = disk[clean_path]
    /\ p_pc = "sending" =>
          /\ e_args.recipient_email = validated.email
          /\ e_args.pdf_path = validated.output_path
          /\ e_args.original_filename = basename(validated.pdf_path)

\* What holds instead: each step of the worker takes the value its field
\* has at that step.
C28_FieldsReadAtEachUse ==
    [][/\ p_pc = "start" /\ p_pc' = "redact" =>
             summary_text' = IF summarize_pdf THEN summarize_content(pdf_path)
                             ELSE <<>>
       /\ p_pc = "redact" /\ p_pc' = "redacting" => src_path' = pdf_path
       /\ p_pc = "redacting" /\ p_pc' = "email" =>
             disk'[output_path] = disk[clean_path]
       /\ p_pc = "email" /\ p_pc' = "sending" =>
             /\ e_args'.recipient_email = Strip(email_recipient)
             /\ e_args'.pdf_path = output_path
             /\ e_args'.original_filename = basename(pdf_path)]_vars

-----------------------------------------------------------------------------
(* The order of the steps of the single-document worker.                   *)

\* The positions of the worker, in the order of _process_pdf_thread.
WorkerOrder ==
    <<"start", "redact", "redacting", "email", "sending", "message", "done">>

Position(at) == CHOOSE k \in 1..Len(WorkerOrder) : WorkerOrder[k] = at

\* C29: the worker summarizes only when the box is ticked, and returns ""
\* without a provider for a report without text; then it redacts, whatever
\* the summary came to; then it copies; then it sends the email, only with
\* a recipient, and the message carries the file at the output path.  The
\* redactor runs only between the summary and the copy, the mail sender only
\* after the copy; when remove_watermarks or copy2 fails the worker ends
\* with the error completion and the mail sender is not touched.
C29_StepsInOrder ==
    [][/\ p_pc # "idle" /\ p_pc' # p_pc /\ p_pc' # "start" =>
             Position(p_pc') > Position(p_pc)
       /\ p_pc = "start" /\ p_pc' # p_pc =>
             /\ p_pc' = "redact"
             /\ ~summarize_pdf => summary_text' = <<>>
             /\ Exists(pdf_path) =>
                   (Strip(extract_text(disk[pdf_path])) = <<>> =>
                       summary_text' = <<>>)
       /\ p_pc = "redact" /\ p_pc' # p_pc =>
             /\ p_pc' = "redacting"
             /\ src_path' = pdf_path
             /\ r_pc' = "open"
       /\ r_pc' # r_pc => p_pc \in {"redact", "redacting"}
       /\ p_pc = "redacting" /\ p_pc' # p_pc =>
             \/ /\ p_pc' = "email"
                /\ r_pc = "returned"
                /\ Exists(output_path)'
                /\ disk'[output_path] = disk[clean_path]
             \/ /\ p_pc' = "done"
                /\ ui_queue' # ui_queue
                /\ ui_queue'[Len(ui_queue')].item.kind = "failure"
                /\ UNCHANGED emailVars
       /\ emailVars' # emailVars => p_pc \in {"email", "sending"}
       /\ p_pc = "email" /\ p_pc' # p_pc =>
             /\ p_pc' \in {"sending", "message"}
             /\ p_pc' = "sending" =>
                   /\ Strip(email_recipient) # <<>>
                   /\ e_args'.pdf_path = output_path
             /\ Strip(email_recipient) = <<>> => p_pc' = "message"
       /\ outbox' # outbox =>
             /\ p_pc = "sending"
             /\ outbox'[Len(outbox')].attachments =
                   <<Attachment(basename(pdf_path), disk[output_path])>>
       /\ p_pc \in {"email", "sending", "message"} /\ p_pc' = "done" =>
             ui_queue'[Len(ui_queue')].item.kind = "success"]_vars

\* A run went through the four steps: the summary was made, the cleaned
\* report is at the output path and the email was sent.
C29_Witness ==
    /\ p_pc = "done"
    /\ summarize_pdf
    /\ summary_text # <<>>
    /\ r_pc = "returned"
    /\ Exists(output_path)
    /\ disk[output_path] = disk[clean_path]
    /\ email_sent
    /\ outbox # <<>>

-----------------------------------------------------------------------------
(* send_pdf_summary_email on summaries with and without headers.           *)

\* A summary has at most this many lines.
MaxLines == 3

\* The lines of a summary: headers of both kinds, a "**## " header without
\* the closing "**", a header behind blanks, a blank line, a text line and a
\* bullet.
LinePool ==
    {<<"#", "#", " ", "A">>,
     <<"*", "*", "#", "#", " ", "B", "*", "*">>,
     <<"*", "*", "#", "#", " ", "C">>,
     <<" ", "#", "#", " ", "D">>,
     <<" ">>,
     <<"x">>,
     <<"-", " ", "y">>}

SummaryTexts ==
    {Join(lines, <<"nl">>) :
        lines \in UNION {[1..n -> LinePool] : n \in 0..MaxLines}}

InitHtml ==
    /\ disk = [q \in {CleanFile} |-> Vector(6, <<<<"a", "b">>>>)]
    /\ \E text \in SummaryTexts :
          e_args = [recipient_email |-> <<"a", "@", "b", ".", "c">>,
                    pdf_path |-> CleanFile,
                    summary_text |-> text,
                    original_filename |-> <<"r", ".", "p", "d", "f">>]
    /\ e_pc = "called"
    /\ e_msg = NoMessage
    /\ e_result = FALSE
    /\ connections = 0
    /\ outbox = <<>>
    /\ src_path = NoPath
    /\ watermark_list = <<>>
    /\ InitCallRedact
    /\ SummarizersIdle
    /\ DesktopIdle
    /\ BatchIdle
    /\ SingleIdle

SpecHtml == InitHtml /\ [][NextEmail]_vars

\* The lines of the summary, stripped.
StrippedLines(text) ==
    LET lines == Split(text, "nl")
    IN  [k \in 1..Len(lines) |-> Strip(lines[k])]

\* The places of the lines that follow line k up to the next header or the
\* end and are neither blank nor headers.
ContentPlaces(lines, k) ==
    {j \in (k + 1)..Len(lines) :
        /\ lines[j] # <<>>
        /\ \A i \in (k + 1)..j : ~IsHeaderLine(lines[i])}

ContentAfter(lines, k) ==
    LET places == Sorted(ContentPlaces(lines, k))
    IN  [j \in 1..Len(places) |-> lines[places[j]]]

\* The header lines that are followed by content.
HeadersWithContent(lines) ==
    {k \in 1..Len(lines) :
        IsHeaderLine(lines[k]) /\ ContentPlaces(lines, k) # {}}

\* Those of them whose title is not empty.
TitledHeadersWithContent(lines) ==
    {k \in HeadersWithContent(lines) : SectionTitle(lines[k]) # <<>>}

\* The number of sections in the body of a message.
SectionCount(body) ==
    Cardinality({i \in 1..Len(body) : body[i] = "<table section>"})

EmptySummaryBody == <<"<html>", "<attachment: PDF document>", "</html>">>

\* C30: the body of the message has one section for each header line that
\* is followed by content, in the order of the summary, and with the content
\* that follows the header; without a header the summary part is empty.
C30_OneSectionPerHeaderWithContent ==
    e_pc \notin {"idle", "called"} =>
       LET lines == StrippedLines(e_args.summary_text)
           headers == Sorted(HeadersWithContent(lines))
           sections == Sections(e_args.summary_text)
       IN  /\ SectionCount(e_msg.body) = Len(headers)
           /\ Len(sections) = Len(headers)
           /\ \A j \in 1..Len(headers) :
                 sections[j].content = ContentAfter(lines, headers[j])
           /\ (\A k \in 1..Len(lines) : ~IsHeaderLine(lines[k])) =>
                 e_msg.body = EmptySummaryBody

\* What holds instead: the sections are those of the header lines that are
\* followed by content and have a title left when "**## " and the last two
\* characters, or "## ", are taken away.
C30_OneSectionPerTitledHeader ==
    e_pc \notin {"idle", "called"} =>
       LET lines == StrippedLines(e_args.summary_text)
           headers == Sorted(TitledHeadersWithContent(lines))
           sections == Sections(e_args.summary_text)
       IN  /\ SectionCount(e_msg.body) = Len(headers)
           /\ Len(sections) = Len(headers)
           /\ \A j \in 1..Len(headers) :
                 /\ sections[j].title = SectionTitle(lines[headers[j]])
                 /\ sections[j].content = ContentAfter(lines, headers[j])
           /\ (\A k \in 1..Len(lines) : ~IsHeaderLine(lines[k])) =>
                 e_msg.body = EmptySummaryBody

=============================================================================
